---- MODULE Spec2Model ----
(***************************************************************************)
(* A model of txkodo/txbt: the mcfunction call-graph optimizer of          *)
(* datapack.py (Function, FunctionTag, Datapack.export) and the            *)
(* structured-concurrency compiler of txbt.py together with the tick-based *)
(* runtime that executes the functions it generates.                       *)
(*                                                                         *)
(* Part I  (specification Spec): the builder API of datapack.py followed   *)
(*          by the passes of Datapack.export.                              *)
(* Part II (specifications SpecRt...): IEvent.export_server and the        *)
(*          combinators' code generation, and the execution of the         *)
(*          generated functions tick by tick.                              *)
(***************************************************************************)
EXTENDS Integers, Sequences, FiniteSets

VARIABLES
  \* ---- Part I: datapack.py ----
  commands,      \* Function.commands, per function: a list of commands
  hasname,       \* Function._hasname
  scheduled,     \* Function._scheduled
  tagged,        \* Function.tagged
  subcommanded,  \* Function.subcommanded
  visited,       \* Function.visited
  callstate,     \* Function.callstate ("UNSET" before define_state)
  tagfunctions,  \* FunctionTag.functions of the one function tag
  tagvalues,     \* the "values" list FunctionTag.export writes
  walked,        \* per function: how often recursivecheck walked its commands
  written,       \* per function: how often export_function was called for it
  files,         \* per function: the lines last written to its file
  pc,            \* position in the build / Datapack.export pipeline
  error,         \* the exception that ended Datapack.export, or "none"
  \* ---- Part II: txbt.py and the runtime of the generated functions ----
  tree,          \* the Event tree that was compiled
  backend,       \* "server" (storage flags) or "entity" (tags on @s)
  prog,          \* the compiled program: functions, nodes, entry points
  flags,         \* storage txbt: flags.<pack>: ids whose flag is -1b
  tags,          \* tags of the entity @s
  data,          \* storage txbt: data.<pack>: per id, count and "_" cells
  scores,        \* scoreboard: per objective the score of @s
  result,        \* storage txbt: result (the result cell)
  sched,         \* the schedule queue: <<function, ticks left>>, in order
  cond,          \* whether the polled condition command succeeds now
  log,           \* ghost: entries, exits and aborts since the last start
  \* ---- Part III: commands and prefix chains as Python objects ----
  lists,         \* the list objects: lists[i] is the content of list i
  objs,          \* the SubCommand and ICommand objects; subs names a list
  afuncs,        \* the Functions flatten_accessor and the accessors created
  last           \* ghost: the operands and the result of the last operation

gvars == <<commands, hasname, scheduled, tagged, subcommanded, visited,
           callstate, tagfunctions, tagvalues, walked, written, files,
           pc, error>>

rvars == <<tree, backend, prog, flags, tags, data, scores, result, sched,
           cond, log>>

avars == <<lists, objs, afuncs, last>>

vars == <<gvars, rvars, avars>>

----------------------------------------------------------------------------
(* Bounds *)

\* number of builder calls (append, set_path, schedule, FunctionTag.append)
\* made before Datapack.export
MaxOps == 4
\* deepest nesting of function calls the interpreter follows
CallDepth == 12
\* longest Wait and most children of the composite under test
MaxTick == 2
MaxChildren == 2
\* how far below zero a score is followed
MaxDebt == 2
\* length of the log of one activation after which the run is not followed
MaxLog == 12
\* most objects on the heap, longest list, and longest prefix chain an
\* operand starts with
MaxObjs == 5
MaxSegs == 6
MaxChain == 2

\* depth of nested Python calls after which the interpreter raises
\* RecursionError (sys.getrecursionlimit(), scaled down)
RecursionLimit == 6

----------------------------------------------------------------------------
(* Function.functions: the registry, in construction order *)
FuncList == <<"f", "g", "h">>

Funcs == {FuncList[i] : i \in DOMAIN FuncList}

\* the prefix chains a command may carry (ICommand.subcommands)
Prefixes == {<<>>, <<"as">>}

\* a command that is not a call to a Function
PlainCommand == [holder |-> "-", subcommands |-> <<>>]

\* a command that is not a call, with a prefix chain of its own
PrefixedCommand == [holder |-> "-", subcommands |-> <<"at">>]

\* Command.Function.Function(holder) with its own prefix chain
CallCommands == [holder : Funcs, subcommands : Prefixes]

IsCall(cmd) == cmd.holder # "-"

RECURSIVE SumLen(_, _)
SumLen(cs, S) ==
  IF S = {} THEN 0
  ELSE LET x == CHOOSE y \in S : TRUE IN Len(cs[x]) + SumLen(cs, S \ {x})

OpsDone ==
  SumLen(commands, Funcs) + Len(tagfunctions)
  + Cardinality({f \in Funcs : hasname[f]})
  + Cardinality({f \in Funcs : scheduled[f]})

----------------------------------------------------------------------------
(* The builder API *)

\* Function.__init__ for every function of the registry: unnamed, empty
GraphInit ==
  /\ commands = [f \in Funcs |-> <<>>]
  /\ hasname = [f \in Funcs |-> FALSE]
  /\ scheduled = [f \in Funcs |-> FALSE]
  /\ tagged = [f \in Funcs |-> FALSE]
  /\ subcommanded = [f \in Funcs |-> FALSE]
  /\ visited = [f \in Funcs |-> FALSE]
  /\ callstate = [f \in Funcs |-> "UNSET"]
  /\ tagfunctions = <<>>
  /\ tagvalues = <<>>
  /\ walked = [f \in Funcs |-> 0]
  /\ written = [f \in Funcs |-> 0]
  /\ files = [f \in Funcs |-> <<>>]
  /\ pc = "build"
  /\ error = "none"

\* no command or prefix chain object exists
AlgIdle ==
  /\ lists = <<>>
  /\ objs = <<>>
  /\ afuncs = <<>>
  /\ last = <<>>

\* Function.append
append(f, command) ==
  /\ pc = "build"
  /\ OpsDone < MaxOps
  /\ commands' = [commands EXCEPT ![f] = Append(@, command)]
  /\ UNCHANGED <<hasname, scheduled, tagged, subcommanded, visited, callstate,
                 tagfunctions, tagvalues, walked, written, files, pc, error, rvars, avars>>

\* Function.set_path
set_path(f) ==
  /\ pc = "build"
  /\ OpsDone < MaxOps
  /\ ~hasname[f]
  /\ hasname' = [hasname EXCEPT ![f] = TRUE]
  /\ UNCHANGED <<commands, scheduled, tagged, subcommanded, visited, callstate,
                 tagfunctions, tagvalues, walked, written, files, pc, error, rvars, avars>>

\* Function.schedule / Function.clear_schedule
schedule(f) ==
  /\ pc = "build"
  /\ OpsDone < MaxOps
  /\ ~scheduled[f]
  /\ scheduled' = [scheduled EXCEPT ![f] = TRUE]
  /\ UNCHANGED <<commands, hasname, tagged, subcommanded, visited, callstate,
                 tagfunctions, tagvalues, walked, written, files, pc, error, rvars, avars>>

\* FunctionTag.append
tag_append(f) ==
  /\ pc = "build"
  /\ OpsDone < MaxOps
  /\ tagged' = [tagged EXCEPT ![f] = TRUE]
  /\ tagfunctions' = Append(tagfunctions, f)
  /\ UNCHANGED <<commands, hasname, scheduled, subcommanded, visited, callstate,
                 tagvalues, walked, written, files, pc, error, rvars, avars>>

----------------------------------------------------------------------------
(* Datapack.export, pass 1: check_call_relation *)

\* FunctionTag.check_call_relation for the tag, then
\* Function.check_call_relation for every function
check_call_relation ==
  /\ pc = "build"
  /\ tagged' = [f \in Funcs |->
                  tagged[f] \/ \E i \in DOMAIN tagfunctions : tagfunctions[i] = f]
  /\ subcommanded' = [g \in Funcs |->
        \E f \in Funcs : \E i \in DOMAIN commands[f] :
           /\ IsCall(commands[f][i])
           /\ commands[f][i].holder = g
           /\ commands[f][i].subcommands # <<>>]
  /\ pc' = "related"
  /\ UNCHANGED <<commands, hasname, scheduled, visited, callstate, tagfunctions,
                 tagvalues, walked, written, files, error, rvars, avars>>

----------------------------------------------------------------------------
(* Datapack.export, pass 2: define_state *)

\* Function._isempty as Python evaluates it: "T", "F", or "E" when the
\* recursion exceeds the interpreter's limit (RecursionError)
RECURSIVE isempty_from(_, _, _)
isempty_from(f, i, depth) ==
  IF depth > RecursionLimit THEN "E"
  ELSE IF i > Len(commands[f]) THEN "T"
  ELSE LET cmd == commands[f][i] IN
       IF ~IsCall(cmd) THEN "F"
       ELSE LET r == isempty_from(cmd.holder, 1, depth + 1) IN
            IF r = "T" THEN isempty_from(f, i + 1, depth) ELSE r

_isempty(f) == isempty_from(f, 1, 1)

_issingle(f) == Len(commands[f]) = 1

\* define_state with the test for a schedule or a tag moved in front of
\* the test for emptiness
define_state_schedule_first(f) ==
  IF hasname[f] \/ scheduled[f] \/ tagged[f] THEN "EXPORT"
  ELSE LET e == _isempty(f) IN
    IF e = "E" THEN "RecursionError"
    ELSE IF e = "T" THEN "NEEDLESS"
    ELSE IF ~subcommanded[f] THEN "FLATTEN"
    ELSE IF _issingle(f) THEN "SINGLE"
    ELSE "EXPORT"

\* the state Function.define_state assigns, or "RecursionError"
define_state(f) ==
  IF hasname[f] THEN "EXPORT"
  ELSE LET e == _isempty(f) IN
    IF e = "E" THEN "RecursionError"
    ELSE IF e = "T" THEN "NEEDLESS"
    ELSE IF scheduled[f] \/ tagged[f] THEN "EXPORT"
    ELSE IF ~subcommanded[f] THEN "FLATTEN"
    ELSE IF _issingle(f) THEN "SINGLE"
    ELSE "EXPORT"

\* index of the first function whose define_state raises, 0 if none
FirstRaise ==
  LET bad == {i \in DOMAIN FuncList : define_state(FuncList[i]) = "RecursionError"}
  IN IF bad = {} THEN 0 ELSE CHOOSE i \in bad : \A j \in bad : i <= j

\* for f in Function.functions: f.define_state()
DefineState ==
  /\ pc = "related"
  /\ LET k == FirstRaise IN
       /\ callstate' = [f \in Funcs |->
            LET i == CHOOSE j \in DOMAIN FuncList : FuncList[j] = f IN
            IF k = 0 \/ i < k THEN define_state(f) ELSE callstate[f]]
       /\ pc' = IF k = 0 THEN "defined" ELSE "failed"
       /\ error' = IF k = 0 THEN "none" ELSE "RecursionError:define_state"
  /\ UNCHANGED <<commands, hasname, scheduled, tagged, subcommanded, visited,
                 tagfunctions, tagvalues, walked, written, files, rvars, avars>>

----------------------------------------------------------------------------
(* Datapack.export, pass 3: recursivecheck *)

\* Function.recursivecheck on the record st = [callstate, visited, walked,
\* err]; err is set when the nesting exceeds the interpreter's limit
RECURSIVE recursivecheck(_, _, _, _)
RECURSIVE recursivecheck_loop(_, _, _, _, _)
\* the loop with `if func in parents` dropped from the assignment: every
\* callee is set to EXPORT
recursivecheck_loop_any_callee(f, i, parents, st, depth) ==
  IF st.err \/ i > Len(commands[f]) THEN st
  ELSE LET cmd == commands[f][i] IN
    IF ~IsCall(cmd) THEN recursivecheck_loop(f, i + 1, parents, st, depth)
    ELSE recursivecheck_loop(f, i + 1, parents,
                             [st EXCEPT !.callstate[cmd.holder] = "EXPORT"], depth)

\* the loop without the assignment to EXPORT: a callee that is one of the
\* parents is walked again
recursivecheck_loop_no_promotion(f, i, parents, st, depth) ==
  IF st.err \/ i > Len(commands[f]) THEN st
  ELSE LET cmd == commands[f][i] IN
    IF ~IsCall(cmd) THEN recursivecheck_loop(f, i + 1, parents, st, depth)
    ELSE recursivecheck_loop(f, i + 1, parents,
           IF st.callstate[cmd.holder] \in {"FLATTEN", "SINGLE"}
           THEN recursivecheck(cmd.holder, parents, st, depth + 1)
           ELSE st, depth)

recursivecheck_loop(f, i, parents, st, depth) ==
  IF st.err \/ i > Len(commands[f]) THEN st
  ELSE LET cmd == commands[f][i] IN
    IF ~IsCall(cmd) THEN recursivecheck_loop(f, i + 1, parents, st, depth)
    ELSE LET func == cmd.holder
             st1 == IF func \in parents
                    THEN [st EXCEPT !.callstate[func] = "EXPORT"]
                    ELSE st
             st2 == IF st1.callstate[func] \in {"FLATTEN", "SINGLE"}
                    THEN recursivecheck(func, parents, st1, depth + 1)
                    ELSE st1
         IN recursivecheck_loop(f, i + 1, parents, st2, depth)

\* the guard `if self.visited: return` inverted
recursivecheck_inverted_guard(f, parents, st, depth) ==
  IF ~st.visited[f] THEN st
  ELSE [st EXCEPT !.visited[f] = TRUE]

recursivecheck(f, parents, st, depth) ==
  IF st.err THEN st
  ELSE IF depth > RecursionLimit THEN [st EXCEPT !.err = TRUE]
  ELSE IF st.visited[f] THEN st
  ELSE LET st2 == recursivecheck_loop(f, 1, parents \cup {f},
                     [st EXCEPT !.walked[f] = @ + 1], depth)
       IN IF st2.err THEN st2 ELSE [st2 EXCEPT !.visited[f] = TRUE]

RECURSIVE recursivecheck_all(_, _)
recursivecheck_all(i, st) ==
  IF i > Len(FuncList) \/ st.err THEN st
  ELSE recursivecheck_all(i + 1, recursivecheck(FuncList[i], {}, st, 1))

\* for f in Function.functions: f.recursivecheck()
RecursiveCheck ==
  /\ pc = "defined"
  /\ LET st == recursivecheck_all(1, [callstate |-> callstate, visited |-> visited,
                                      walked |-> walked, err |-> FALSE])
     IN /\ callstate' = st.callstate
        /\ visited' = st.visited
        /\ walked' = st.walked
        /\ pc' = IF st.err THEN "failed" ELSE "checked"
        /\ error' = IF st.err THEN "RecursionError:recursivecheck" ELSE "none"
  /\ UNCHANGED <<commands, hasname, scheduled, tagged, subcommanded,
                 tagfunctions, tagvalues, written, files, rvars, avars>>

----------------------------------------------------------------------------
(* Datapack.export, pass 4: FunctionTag.export *)

IsExported(f) == callstate[f] = "EXPORT"

\* FunctionTag.export without the callstate test
tag_export_unfiltered ==
  /\ pc = "checked"
  /\ tagvalues' = tagfunctions
  /\ pc' = "tags"
  /\ UNCHANGED <<commands, hasname, scheduled, tagged, subcommanded, visited,
                 callstate, tagfunctions, walked, written, files, error, rvars, avars>>

\* for f in FunctionTag.functiontags: f.export(path)
tag_export ==
  /\ pc = "checked"
  /\ tagvalues' = SelectSeq(tagfunctions, IsExported)
  /\ pc' = "tags"
  /\ UNCHANGED <<commands, hasname, scheduled, tagged, subcommanded, visited,
                 callstate, tagfunctions, walked, written, files, error, rvars, avars>>

----------------------------------------------------------------------------
(* Datapack.export, pass 5: Function.export *)

\* the text of a command: its payload and the prefix chain it is emitted with
Line(payload, subcommand) == [payload |-> payload, subcommands |-> subcommand]

\* Function.export_commands on the record acc = [commands, cmds, written,
\* files, err]: acc.commands is the list the caller passes in, acc.cmds the
\* commands the functions hold (Function.commands) while the export runs
RECURSIVE export_commands(_, _, _, _)
RECURSIVE export_loop(_, _, _, _)
export_loop(f, i, acc, depth) ==
  IF acc.err # "none" \/ i > Len(acc.cmds[f]) THEN acc
  ELSE LET cmd == acc.cmds[f][i] IN
    export_loop(f, i + 1,
      IF IsCall(cmd)
      THEN export_commands(cmd.holder, cmd.subcommands, acc, depth + 1)
      ELSE [acc EXCEPT !.commands = Append(@, Line("say", cmd.subcommands))],
      depth)

\* the SINGLE case for a command that is not a call: the command's prefix
\* chain is replaced for the time of cmd.export() and put back afterwards
export_single(f, subcommand, acc) ==
  LET s == acc.cmds[f][1].subcommands
      set == [acc EXCEPT !.cmds[f][1].subcommands = subcommand \o s]
      out == [set EXCEPT !.commands = Append(@, Line("say", set.cmds[f][1].subcommands))]
  IN [out EXCEPT !.cmds[f][1].subcommands = s]

export_commands(f, subcommand, acc, depth) ==
  IF acc.err # "none" THEN acc
  ELSE IF depth > RecursionLimit THEN [acc EXCEPT !.err = "RecursionError:export"]
  ELSE CASE callstate[f] = "NEEDLESS" -> acc
    [] callstate[f] = "FLATTEN" ->
         IF subcommand # <<>> THEN [acc EXCEPT !.err = "AssertionError:flatten"]
         ELSE export_loop(f, 1, acc, depth)
    [] callstate[f] = "SINGLE" ->
         IF Len(acc.cmds[f]) # 1 THEN [acc EXCEPT !.err = "AssertionError:export"]
         ELSE LET cmd == acc.cmds[f][1] IN
           IF IsCall(cmd)
           THEN export_commands(cmd.holder, subcommand \o cmd.subcommands, acc, depth + 1)
           ELSE export_single(f, subcommand, acc)
    [] OTHER ->
         LET inner == export_loop(f, 1, [acc EXCEPT !.commands = <<>>], depth) IN
         IF inner.err # "none" THEN inner
         ELSE [inner EXCEPT !.files[f] = inner.commands,
                            !.written[f] = @ + 1,
                            !.commands = Append(acc.commands, Line(f, subcommand))]

\* Function.export
export(f, acc) ==
  IF callstate[f] = "EXPORT"
  THEN export_commands(f, <<>>, [acc EXCEPT !.commands = <<>>], 1)
  ELSE acc

RECURSIVE export_all(_, _)
export_all(i, acc) ==
  IF i > Len(FuncList) \/ acc.err # "none" THEN acc
  ELSE export_all(i + 1, export(FuncList[i], acc))

\* for f in Function.functions: f.export(path)
Export ==
  /\ pc = "tags"
  /\ LET acc == export_all(1, [commands |-> <<>>, cmds |-> commands,
                               written |-> written, files |-> files, err |-> "none"])
     IN /\ written' = acc.written
        /\ files' = acc.files
        /\ commands' = acc.cmds
        /\ pc' = IF acc.err = "none" THEN "exported" ELSE "failed"
        /\ error' = acc.err
  /\ UNCHANGED <<hasname, scheduled, tagged, subcommanded, visited,
                 callstate, tagfunctions, tagvalues, walked, rvars, avars>>

----------------------------------------------------------------------------
\* Part II is idle in specification Spec
RtIdle ==
  /\ tree = <<>>
  /\ backend = "server"
  /\ prog = <<>>
  /\ flags = {}
  /\ tags = {}
  /\ data = {}
  /\ scores = {}
  /\ result = -1
  /\ sched = <<>>
  /\ cond = FALSE
  /\ log = <<>>

Init == GraphInit /\ RtIdle /\ AlgIdle

Next ==
  \/ \E f \in Funcs : append(f, PlainCommand)
  \/ \E f \in Funcs : append(f, PrefixedCommand)
  \/ \E f \in Funcs : \E c \in CallCommands : append(f, c)
  \/ \E f \in Funcs : set_path(f)
  \/ \E f \in Funcs : schedule(f)
  \/ \E f \in Funcs : tag_append(f)
  \/ check_call_relation
  \/ DefineState
  \/ RecursiveCheck
  \/ tag_export
  \/ Export

Spec == Init /\ [][Next]_vars

----------------------------------------------------------------------------
(* Properties of the call-graph passes *)

\* the functions f calls: the holders of its call-to-Function commands
Callees(f) == {commands[f][i].holder : i \in {j \in DOMAIN commands[f] : IsCall(commands[f][j])}}

\* the functions reachable from f by one or more call edges that stay inside S
RECURSIVE ReachWithin(_, _, _)
ReachWithin(S, frontier, seen) ==
  LET next == (UNION {Callees(x) : x \in frontier} \cap S) \ seen IN
  IF next = {} THEN seen ELSE ReachWithin(S, next, seen \cup next)

OnCycleWithin(S, f) == f \in S /\ f \in ReachWithin(S, {f}, {})

Inlined == {f \in Funcs : callstate[f] \in {"FLATTEN", "SINGLE"}}

CycleBreakingDone ==
  \/ pc \in {"checked", "tags", "exported"}
  \/ pc = "failed" /\ error \in {"RecursionError:export", "AssertionError:export",
                                   "AssertionError:flatten"}

\* C1: once define_state and then recursivecheck have run on every function,
\* every cycle of the call graph contains a function that is neither FLATTEN
\* nor SINGLE: no function lies on a cycle made of FLATTEN/SINGLE functions.
C1_NoInlineCycle ==
  CycleBreakingDone => \A f \in Funcs : ~OnCycleWithin(Inlined, f)

\* a cycle of functions that define_state classified FLATTEN or SINGLE, one of
\* which recursivecheck has promoted to EXPORT
C1_Witness ==
  /\ pc = "checked"
  /\ \E f \in Funcs :
       /\ define_state(f) \in {"FLATTEN", "SINGLE"}
       /\ callstate[f] = "EXPORT"
       /\ OnCycleWithin({g \in Funcs : define_state(g) \in {"FLATTEN", "SINGLE"}}, f)
       /\ \E g \in Funcs \ {f} : g \in Inlined /\ g \in ReachWithin(Funcs, {f}, {})
                                 /\ f \in ReachWithin(Funcs, {g}, {})

\* C2: after classification and cycle breaking, Function.export of every
\* EXPORT function terminates: export_commands never recurses without end
\* (the Python interpreter never raises RecursionError during export).
C2_ExportTerminates == error # "RecursionError:export"

\* C3: define_state terminates on every function of every call graph:
\* _isempty never recurses without end (no RecursionError in define_state).
C3_DefineStateTerminates == error # "RecursionError:define_state"

----------------------------------------------------------------------------
(***************************************************************************)
(* Part II: txbt.py                                                        *)
(***************************************************************************)

(* Event trees: [kind, n, subs]; n is Wait's tick count, and for a Run what *)
(* its final command returns beyond 1 when it succeeds                      *)
Ev(kind, n, subs) == [kind |-> kind, n |-> n, subs |-> subs]

Run == Ev("Run", 0, <<>>)
\* a Run whose final command returns r when it succeeds (r >= 1)
RunReturning(r) == Ev("Run", r - 1, <<>>)
Wait(n) == Ev("Wait", n, <<>>)
WaitUntil == Ev("WaitUntil", 0, <<>>)
WaitWhile == Ev("WaitWhile", 0, <<>>)
WaitFunctionCall == Ev("WaitFunctionCall", 0, <<>>)
LoopWhile(e) == Ev("LoopWhile", 0, <<e>>)
LoopUntil(e) == Ev("LoopUntil", 0, <<e>>)
LoopInfinit(e) == Ev("LoopInfinit", 0, <<e>>)
Invert(e) == Ev("Invert", 0, <<e>>)
Infinit(e) == Ev("Infinit", 0, <<e>>)
Traverse(subs) == Ev("Traverse", 0, subs)
All(subs) == Ev("All", 0, subs)
Any(subs) == Ev("Any", 0, subs)
ParallelTraverse(subs) == Ev("ParallelTraverse", 0, subs)
ParallelFirst(subs) == Ev("ParallelFirst", 0, subs)
ParallelAny(subs) == Ev("ParallelAny", 0, subs)
ParallelAll(subs) == Ev("ParallelAll", 0, subs)

\* the tag of the entities whose tick function is to be run ('txbt.tick')
_ticking_tag == 0

Wrappers == {"Invert", "Infinit"}
Composits == {"Traverse", "All", "Any", "ParallelTraverse", "ParallelFirst"}
\* the subclasses of IComposit
ICompositKinds == Composits \cup {"ParallelAny", "ParallelAll"}

\* the isInfinite property of each Event class (for an All or Any without
\* children self.subs[0] raises IndexError, the error the export of that
\* event raises: FALSE stands for it)
RECURSIVE isInfinite(_)
isInfinite(e) ==
  CASE e.kind \in {"Infinit", "LoopInfinit"} -> TRUE
    [] e.kind \in {"Invert", "LoopWhile", "LoopUntil"} -> isInfinite(e.subs[1])
    [] e.kind \in {"Traverse", "ParallelTraverse"} ->
         \E i \in DOMAIN e.subs : isInfinite(e.subs[i])
    [] e.kind \in {"All", "Any"} -> e.subs # <<>> /\ isInfinite(e.subs[1])
    [] e.kind \in {"ParallelFirst", "ParallelAny", "ParallelAll"} ->
         \A i \in DOMAIN e.subs : isInfinite(e.subs[i])
    [] OTHER -> FALSE

(* Generated commands: [op, a, b, g]; g is the list of `execute if/unless`   *)
(* guards in front of the command                                            *)
\* s: the flag a `store success` prefix writes (0: none)
Cmd(op, a, b) == [op |-> op, a |-> a, b |-> b, s |-> 0, g |-> <<>>]

\* `guard + command`: SubCommand.__add__ puts the guard in front
If(guard, cmd) == [cmd EXCEPT !.g = <<guard>> \o @]

\* state_server.isMatch(Byte(-1)) / notMatch(Byte(-1))
FlagIs(id) == [k |-> "flag", x |-> id, v |-> 1]
FlagNot(id) == [k |-> "flag", x |-> id, v |-> 0]
\* IEvent._result.isMatch(Byte(v))
ResultIs(v) == [k |-> "result", x |-> 0, v |-> v]
\* data["_"].isMatch(Byte(v)) and count.isMatch(Int(0))
RltIs(id, v) == [k |-> "rlt", x |-> id, v |-> v]
CountIs(id, v) == [k |-> "count", x |-> id, v |-> v]
\* Selector.S(tag=...).IfEntity() and score.IfMatch(v)
TagIs(id) == [k |-> "tag", x |-> id, v |-> 1]
ScoreIs(obj, v) == [k |-> "score", x |-> obj, v |-> v]

\* the ghost command that records a node's entry (b = 1) or exit (b = 2)
\* with the result cell at that moment, and the one that brings the result in
\* the last record up to date after a wrapper has rewritten the cell (b = 3),
\* and the one that records that the function an Infinit returned as its exit
\* was run (b = 4)
Mark(id, b) == Cmd("mark", id, b)

\* a record of the ghost log: r is the result cell as the parent finds it, own
\* the cell when the node's own exit ran, inv the number of Invert writes
\* since, o the outcome of the node's command (Run; -1 otherwise), n the
\* number of consecutive game ticks a tick record stands for
LogRec(k, id, r, o) ==
  [k |-> k, id |-> id, r |-> r, own |-> r, inv |-> 0, o |-> o, n |-> 1]

(* The compilation state: the functions created so far (a Function is its   *)
(* index in funcs), the nodes that were given an id (self.id), the value    *)
(* returned by the last export call, and the exception raised, if any       *)
\* (obj is ObjectiveIterator.main.index, objs the objectives it has created,
\* trigger the Function given to WaitFunctionCall, 0 while there is none;
\* ghost: infinit is TRUE while the event being exported is the sub of an
\* Infinit and no node has been given an id for it yet)
NewCompile ==
  [funcs |-> <<>>, nodes |-> <<>>, ret |-> 0, res |-> -1, err |-> "none",
   obj |-> -1, objs |-> 0, id |-> 0, trigger |-> 0, infinit |-> FALSE]

\* Function(): a new, empty function; its index is Len(funcs) afterwards
NewFunction(cs) == [cs EXCEPT !.funcs = Append(@, <<>>)]

\* self.id = IEvent.nextId(): ids are fresh; nodes records who got which
NextId(cs) == Len(cs.nodes) + 1

NewNode(cs, e, parent, resultless) ==
  [cs EXCEPT !.nodes = Append(@, [kind |-> e.kind, parent |-> parent,
                                  resultless |-> resultless, inf |-> isInfinite(e),
                                  n |-> e.n, of |-> Len(@) + 1,
                                  infinit |-> cs.infinit, arity |-> Len(e.subs),
                                  counter |-> -1]),
             !.infinit = FALSE]

\* a second `self.id = IEvent.nextId()` on the node that already has id: the
\* new id belongs to the same node
Reassign(cs, id) == [cs EXCEPT !.nodes = Append(@, [@[id] EXCEPT !.of = id])]

\* ObjectiveIterator.__next__
NextObjective(cs) ==
  [cs EXCEPT !.obj = @ + 1, !.objs = IF cs.obj + 1 = @ THEN @ + 1 ELSE @]

\* ghost: node id holds the objective the allocator returned last
Holder(cs, id) == [cs EXCEPT !.nodes[id].counter = cs.obj]

Return(cs, exit) == [cs EXCEPT !.ret = exit]

----------------------------------------------------------------------------
(* Code generation, server backend.  Every operator takes the compilation   *)
(* state cs last and returns the new one; cs.ret is the Python return value *)
(* (the exit function), cs.res the Byte returned beside it (-1 for None).   *)
(* A Function() created by an operator is named by the index it will get.   *)

\* func.append(*commands)
AddCmds(cs, func, cmds) == [cs EXCEPT !.funcs[func] = @ \o cmds]

\* F applied to the value of v
Bind(v, F(_)) == CHOOSE r \in {F(x) : x \in {v}} : TRUE

CallFn(f) == Cmd("call", f, 0)

RECURSIVE _export_server(_, _, _, _, _, _, _)
RECURSIVE Traverse_main_server(_, _, _, _, _, _, _, _)
RECURSIVE All_subs_server(_, _, _, _, _, _, _, _, _, _)
RECURSIVE Any_subs_server(_, _, _, _, _, _, _, _, _, _)
RECURSIVE ParallelTraverse_subs_server(_, _, _, _, _, _, _, _, _)
RECURSIVE ParallelFirst_subs_server(_, _, _, _, _, _, _, _, _, _)
RECURSIVE ParallelAll_subs_server(_, _, _, _, _, _, _, _, _, _, _)

\* Run._export_server
Run_export_server(e, func, abort, init, resultless, parent, cs) ==
  LET id == NextId(cs) IN
  Return(AddCmds(NewNode(cs, e, parent, resultless), func,
                 <<Mark(id, 1), Cmd("run", id, IF resultless THEN 0 ELSE 1 + e.n),
                   Mark(id, 2), Cmd("flag_remove", id, 0)>>),
         func)

\* Wait.main_server_with_state
Wait_main_server_with_state(e, id, func, abort, init, resultless, cs) ==
  LET exit == Len(cs.funcs) + 1 IN
  Return(AddCmds(AddCmds(AddCmds(NewFunction(cs),
                                 abort, <<Cmd("clear", exit, 0)>>),
                         func, <<[Cmd("schedule", exit, e.n) EXCEPT !.s = id]>>),
                 exit, IF ~resultless THEN <<Cmd("result_set", 1, 0)>> ELSE <<>>),
         exit)

\* WaitUntil.main_server
WaitUntil_main_server(e, id, func, abort, init, resultless, cs) ==
  LET enter == Len(cs.funcs) + 1
      exit == Len(cs.funcs) + 2
  IN [Return(AddCmds(AddCmds(AddCmds(AddCmds(NewFunction(NewFunction(cs)),
                abort, <<Cmd("clear", enter, 0), Cmd("data_remove", id, 0)>>),
                func, <<CallFn(enter)>>),
                enter, <<Cmd("condition", id, 0),
                         If(RltIs(id, 1), CallFn(exit)),
                         If(RltIs(id, 0), Cmd("schedule", enter, 1))>>),
                exit, <<Cmd("data_remove", id, 0)>>),
             exit) EXCEPT !.res = 1]

\* WaitWhile.main_server
WaitWhile_main_server(e, id, func, abort, init, resultless, cs) ==
  LET enter == Len(cs.funcs) + 1
      exit == Len(cs.funcs) + 2
  IN [Return(AddCmds(AddCmds(AddCmds(AddCmds(NewFunction(NewFunction(cs)),
                abort, <<Cmd("clear", enter, 0), Cmd("data_remove", id, 0)>>),
                func, <<CallFn(enter)>>),
                enter, <<Cmd("condition", id, 0),
                         If(RltIs(id, 0), CallFn(exit)),
                         If(RltIs(id, 1), Cmd("schedule", enter, 1))>>),
                exit, <<Cmd("data_remove", id, 0)>>),
             exit) EXCEPT !.res = 0]

\* the Function a WaitFunctionCall is constructed with: the event trees share
\* one, which exists before the tree is exported
Trigger(cs) ==
  IF cs.trigger # 0 THEN cs ELSE [NewFunction(cs) EXCEPT !.trigger = Len(cs.funcs) + 1]

\* WaitFunctionCall.main_server
WaitFunctionCall_main_server(e, id, func, abort, init, resultless, cs) ==
  Bind(Trigger(cs),
       LAMBDA c : [Return(AddCmds(NewFunction(c), c.trigger,
                                  <<If(FlagIs(id), CallFn(Len(c.funcs) + 1))>>),
                          Len(c.funcs) + 1) EXCEPT !.res = 1])

\* LoopWhile.main_server
LoopWhile_main_server(e, id, func, abort, init, resultless, cs) ==
  LET exit == Len(cs.funcs) + 1
      enter == Len(cs.funcs) + 2
  IN IF isInfinite(e.subs[1])
     THEN [_export_server(e.subs[1], func, abort, init, TRUE, id, cs) EXCEPT !.res = -1]
     ELSE Bind(_export_server(e.subs[1], enter, abort, init, FALSE, id,
                              AddCmds(NewFunction(NewFunction(cs)), func, <<CallFn(enter)>>)),
            LAMBDA c : [Return(AddCmds(c, c.ret,
                                 <<If(ResultIs(0), CallFn(exit)),
                                   If(FlagIs(id), If(ResultIs(1), CallFn(enter)))>>),
                               exit) EXCEPT !.res = 0])

\* LoopUntil.main_server
LoopUntil_main_server(e, id, func, abort, init, resultless, cs) ==
  LET exit == Len(cs.funcs) + 1
      enter == Len(cs.funcs) + 2
  IN IF isInfinite(e.subs[1])
     THEN [_export_server(e.subs[1], func, abort, init, TRUE, id, cs) EXCEPT !.res = -1]
     ELSE Bind(_export_server(e.subs[1], enter, abort, init, FALSE, id,
                              AddCmds(NewFunction(NewFunction(cs)), func, <<CallFn(enter)>>)),
            LAMBDA c : [Return(AddCmds(c, c.ret,
                                 <<If(ResultIs(1), CallFn(exit)),
                                   If(FlagIs(id), If(ResultIs(0), CallFn(enter)))>>),
                               exit) EXCEPT !.res = 1])

\* LoopInfinit.main_server
LoopInfinit_main_server(e, id, func, abort, init, resultless, cs) ==
  LET exit == Len(cs.funcs) + 1
      enter == Len(cs.funcs) + 2
  IN Bind(_export_server(e.subs[1], enter, abort, init, TRUE, id,
                         AddCmds(NewFunction(NewFunction(cs)), func, <<CallFn(enter)>>)),
       LAMBDA c : [Return(AddCmds(c, c.ret, <<CallFn(enter)>>), exit) EXCEPT !.res = -1])

\* Traverse.main_server: the loop over self.subs from index i
Traverse_main_server(e, i, id, func, abort, init, resultless, cs) ==
  LET sub == e.subs[i] IN
  IF isInfinite(sub) \/ i = Len(e.subs)
  THEN [_export_server(sub, func, abort, init,
                       IF isInfinite(sub) THEN TRUE ELSE resultless, id, cs)
          EXCEPT !.res = -1]
  ELSE Bind(_export_server(sub, func, abort, init, TRUE, id, cs),
            LAMBDA c : Traverse_main_server(e, i + 1, id, c.ret, abort, init, resultless, c))

\* All.main_server_with_state, after a child that is not the last: `next`
All_link(c, id, fail) ==
  AddCmds(NewFunction(c), c.ret,
          <<If(ResultIs(0), CallFn(fail)),
            If(FlagIs(id), If(ResultIs(1), CallFn(Len(c.funcs) + 1)))>>)

\* All.main_server_with_state, after the last child
All_tail(c, fail, exit, resultless) ==
  Return(AddCmds(AddCmds(c, fail, (IF ~resultless THEN <<Cmd("result_set", 0, 0)>> ELSE <<>>)
                                    \o <<CallFn(exit)>>),
                 c.ret, <<CallFn(exit)>>),
         exit)

\* All.main_server_with_state: the loop over self.subs from index i
All_subs_server(e, i, id, func, fail, exit, abort, init, resultless, cs) ==
  LET sub == e.subs[i] IN
  IF isInfinite(sub) THEN _export_server(sub, func, abort, init, TRUE, id, cs)
  ELSE IF i < Len(e.subs)
  THEN Bind(_export_server(sub, func, abort, init, FALSE, id, cs),
            LAMBDA c : Bind(All_link(c, id, fail),
              LAMBDA d : All_subs_server(e, i + 1, id, Len(c.funcs) + 1, fail, exit,
                                         abort, init, resultless, d)))
  ELSE Bind(_export_server(sub, func, abort, init, resultless, id, cs),
            LAMBDA c : All_tail(c, fail, exit, resultless))

All_main_server_with_state(e, id, func, abort, init, resultless, cs) ==
  All_subs_server(e, 1, id, func, Len(cs.funcs) + 1, Len(cs.funcs) + 2,
                  abort, init, resultless, NewFunction(NewFunction(cs)))

\* Any.main_server_with_state, after a child that is not the last: `next`
Any_link(c, id, success) ==
  AddCmds(NewFunction(c), c.ret,
          <<If(ResultIs(1), CallFn(success)),
            If(ResultIs(0), CallFn(Len(c.funcs) + 1))>>)

\* Any.main_server_with_state, after the last child
Any_tail(c, success, exit, resultless) ==
  Return(AddCmds(AddCmds(c, c.ret, <<CallFn(exit)>>),
                 success, (IF ~resultless THEN <<Cmd("result_set", 1, 0)>> ELSE <<>>)
                            \o <<CallFn(exit)>>),
         exit)

\* Any.main_server_with_state: the loop over self.subs from index i
Any_subs_server(e, i, id, func, success, exit, abort, init, resultless, cs) ==
  LET sub == e.subs[i] IN
  IF isInfinite(sub) THEN _export_server(sub, func, abort, init, TRUE, id, cs)
  ELSE IF i < Len(e.subs)
  THEN Bind(_export_server(sub, func, abort, init, FALSE, id, cs),
            LAMBDA c : Bind(Any_link(c, id, success),
              LAMBDA d : Any_subs_server(e, i + 1, id, Len(c.funcs) + 1, success, exit,
                                         abort, init, resultless, d)))
  ELSE Bind(_export_server(sub, func, abort, init, resultless, id, cs),
            LAMBDA c : Any_tail(c, success, exit, resultless))

Any_main_server_with_state(e, id, func, abort, init, resultless, cs) ==
  Any_subs_server(e, 1, id, func, Len(cs.funcs) + 1, Len(cs.funcs) + 2,
                  abort, init, resultless, NewFunction(NewFunction(cs)))

\* ParallelTraverse.main_server_with_state: what follows a counted child
ParallelTraverse_link(c, id, exit) ==
  AddCmds(c, c.ret, <<Cmd("count_dec", id, 0), If(CountIs(id, 0), CallFn(exit))>>)

\* ParallelTraverse.main_server_with_state: `for sub in self.subs` from index
\* i; counted is FALSE in the isInfinite branch
ParallelTraverse_subs_server(e, i, id, func, exit, abort, init, counted, cs) ==
  IF i > Len(e.subs) THEN cs
  ELSE Bind(_export_server(e.subs[i], func, abort, init, TRUE, id, cs),
            LAMBDA c : Bind(IF counted THEN ParallelTraverse_link(c, id, exit) ELSE c,
              LAMBDA d : ParallelTraverse_subs_server(e, i + 1, id, func, exit,
                                                      abort, init, counted, d)))

\* ParallelTraverse.main_server_with_state: the end of the method
ParallelTraverse_tail(c, id, exit, resultless) ==
  Return(AddCmds(c, exit, (IF ~resultless THEN <<Cmd("result_set", 1, 0)>> ELSE <<>>)
                            \o <<Cmd("data_remove", id, 0)>>),
         exit)

ParallelTraverse_main_server_with_state(e, id, func, abort, init, resultless, cs) ==
  LET exit == Len(cs.funcs) + 1
      c2 == AddCmds(NewFunction(cs), abort, <<Cmd("data_remove", id, 0)>>)
  IN IF isInfinite(e)
     THEN Return(ParallelTraverse_subs_server(e, 1, id, func, exit, abort, init, FALSE, c2),
                 exit)
     ELSE ParallelTraverse_tail(
            ParallelTraverse_subs_server(e, 1, id, func, exit, abort, init, TRUE,
              AddCmds(c2, func, <<Cmd("count_set", id, Len(e.subs))>>)),
            id, exit, resultless)

\* ParallelFirst.main_server_with_state: the loop over self.subs from index i
ParallelFirst_subs_server(e, i, id, func, exit, abt, abort, init, resultless, cs) ==
  IF i > Len(e.subs) THEN cs
  ELSE Bind(_export_server(e.subs[i], func, abt, init, resultless, id,
                           AddCmds(NewFunction(cs), func,
                                   <<If(FlagIs(id), CallFn(Len(cs.funcs) + 1))>>)),
            LAMBDA c : Bind(IF ~isInfinite(e.subs[i])
                            THEN AddCmds(c, c.ret, <<CallFn(exit)>>) ELSE c,
              LAMBDA d : ParallelFirst_subs_server(e, i + 1, id, func, exit, abt,
                                                   abort, init, resultless, d)))

ParallelFirst_main_server_with_state(e, id, func, abort, init, resultless, cs) ==
  LET exit == Len(cs.funcs) + 1
      abt == Len(cs.funcs) + 2
  IN Return(AddCmds(AddCmds(
              ParallelFirst_subs_server(e, 1, id, func, exit, abt, abort, init, resultless,
                                        NewFunction(NewFunction(cs))),
              abort, <<CallFn(abt)>>),
              exit, IF ~isInfinite(e) THEN <<CallFn(abt)>> ELSE <<>>),
            exit)

\* ParallelAny.main_server_with_state: `next(ObjectiveIterator.main)` before
\* anything is appended; export_server assigns ObjectiveIterator.main nowhere
ParallelAny_main_server_with_state(e, id, func, abort, init, resultless, cs) ==
  [NewFunction(NewFunction(NewFunction(cs))) EXCEPT !.err = "AttributeError"]

\* len([sub for sub in self.subs if not sub.isInfinite])
Finite(e) == Cardinality({i \in DOMAIN e.subs : ~isInfinite(e.subs[i])})

\* ParallelAll.main_server_with_state: what follows a child that is not
\* infinite
ParallelAll_link(c, id, success, failure) ==
  AddCmds(c, c.ret, <<Cmd("count_dec", id, 0),
                      If(ResultIs(0), CallFn(failure)),
                      If(CountIs(id, 0), If(ResultIs(1), CallFn(success)))>>)

\* ParallelAll.main_server_with_state: `for sub in self.subs` from index i;
\* f is created and called under the node's flag, and the child is exported
\* into func
ParallelAll_subs_server(e, i, id, func, success, failure, abt, abort, init, resultless, cs) ==
  IF i > Len(e.subs) THEN cs
  ELSE Bind(_export_server(e.subs[i], func, abt, init, FALSE, id,
                           AddCmds(NewFunction(cs), func,
                                   <<If(FlagIs(id), CallFn(Len(cs.funcs) + 1))>>)),
            LAMBDA c : Bind(IF ~isInfinite(e.subs[i])
                            THEN ParallelAll_link(c, id, success, failure) ELSE c,
              LAMBDA d : ParallelAll_subs_server(e, i + 1, id, func, success, failure,
                                                 abt, abort, init, resultless, d)))

\* ParallelAll.main_server_with_state: after `abort += abt.call()`, when the
\* node is not infinite
ParallelAll_tail(c, id, exit, success, failure, abt, resultless) ==
  Return(AddCmds(AddCmds(AddCmds(c,
           failure, <<CallFn(abt)>>
                      \o (IF ~resultless THEN <<Cmd("result_set", 0, 0)>> ELSE <<>>)
                      \o <<CallFn(exit)>>),
           success, (IF ~resultless THEN <<Cmd("result_set", 1, 0)>> ELSE <<>>)
                      \o <<CallFn(exit)>>),
           exit, <<Cmd("data_remove", id, 0)>>),
         exit)

ParallelAll_main_server_with_state(e, id, func, abort, init, resultless, cs) ==
  LET exit == Len(cs.funcs) + 1
      success == Len(cs.funcs) + 2
      failure == Len(cs.funcs) + 3
      abt == Len(cs.funcs) + 4
      c1 == AddCmds(NewFunction(NewFunction(NewFunction(cs))),
                    abort, <<Cmd("data_remove", id, 0)>>)
      c2 == IF ~isInfinite(e)
            THEN AddCmds(c1, func, <<Cmd("count_set", id, Finite(e))>>) ELSE c1
  IN Bind(ParallelAll_subs_server(e, 1, id, func, success, failure, abt, abort, init,
                                  resultless, NewFunction(c2)),
          LAMBDA c : Bind(AddCmds(c, abort, <<CallFn(abt)>>),
            LAMBDA d : IF isInfinite(e) THEN Return(d, exit)
                       ELSE ParallelAll_tail(d, id, exit, success, failure, abt, resultless)))

\* IEvent.main_server_with_state after main_server has returned
IEvent_result(c, resultless) ==
  IF c.res # -1 /\ ~resultless
  THEN AddCmds(c, c.ret, <<Cmd("result_set", c.res, 0)>>)
  ELSE c

\* IEvent.main_server_with_state, with the overrides of the subclasses
main_server_with_state(e, id, func, abort, init, resultless, cs) ==
  CASE e.kind = "Wait" -> Wait_main_server_with_state(e, id, func, abort, init, resultless, cs)
    [] e.kind = "All" -> All_main_server_with_state(e, id, func, abort, init, resultless, cs)
    [] e.kind = "Any" -> Any_main_server_with_state(e, id, func, abort, init, resultless, cs)
    [] e.kind = "ParallelTraverse" ->
         ParallelTraverse_main_server_with_state(e, id, func, abort, init, resultless, cs)
    [] e.kind = "ParallelFirst" ->
         ParallelFirst_main_server_with_state(e, id, func, abort, init, resultless, cs)
    [] e.kind = "ParallelAny" ->
         ParallelAny_main_server_with_state(e, id, func, abort, init, resultless, cs)
    [] e.kind = "ParallelAll" ->
         ParallelAll_main_server_with_state(e, id, func, abort, init, resultless, cs)
    [] e.kind = "WaitUntil" ->
         Bind(WaitUntil_main_server(e, id, func, abort, init, resultless, cs),
              LAMBDA c : IEvent_result(c, resultless))
    [] e.kind = "WaitWhile" ->
         Bind(WaitWhile_main_server(e, id, func, abort, init, resultless, cs),
              LAMBDA c : IEvent_result(c, resultless))
    [] e.kind = "WaitFunctionCall" ->
         Bind(WaitFunctionCall_main_server(e, id, func, abort, init, resultless, cs),
              LAMBDA c : IEvent_result(c, resultless))
    [] e.kind = "LoopWhile" ->
         Bind(LoopWhile_main_server(e, id, func, abort, init, resultless, cs),
              LAMBDA c : IEvent_result(c, resultless))
    [] e.kind = "LoopUntil" ->
         Bind(LoopUntil_main_server(e, id, func, abort, init, resultless, cs),
              LAMBDA c : IEvent_result(c, resultless))
    [] e.kind = "LoopInfinit" ->
         Bind(LoopInfinit_main_server(e, id, func, abort, init, resultless, cs),
              LAMBDA c : IEvent_result(c, resultless))
    [] OTHER ->
         Bind(Traverse_main_server(e, 1, id, func, abort, init, resultless, cs),
              LAMBDA c : IEvent_result(c, resultless))

\* IEvent._export_server after main_server_with_state has returned exit
IEvent_exit(c, id) ==
  Return(AddCmds(c, c.ret, <<Mark(id, 2), Cmd("flag_remove", id, 0)>>), c.ret)

\* IEvent._export_server
IEvent_export_server(e, func, abort, init, resultless, parent, cs) ==
  LET id == NextId(cs)
      _abort == Len(cs.funcs) + 1
  IN Bind(main_server_with_state(e, id, func, _abort, init, resultless,
            AddCmds(AddCmds(AddCmds(NewFunction(NewNode(cs, e, parent, resultless)),
                    _abort, <<Cmd("flag_remove", id, 0)>>),
                    abort, <<If(FlagIs(id), CallFn(_abort))>>),
                    func, <<Cmd("flag_set", id, 0), Mark(id, 1)>>)),
          LAMBDA c : IEvent_exit(c, id))

\* Invert._export_server after the sub event has been exported
Invert_exit(c, resultless) ==
  IF resultless THEN c ELSE AddCmds(c, c.ret, <<Cmd("invert", 0, 0), Mark(0, 3)>>)

\* an Infinit that returns the exit of its sub instead of a new Function
Infinit_exit_of_sub(c, id) == Return(c, c.ret)

\* Infinit._export_server: `return Function()`; id is the id of the sub
Infinit_exit(c, id) ==
  Return(AddCmds(NewFunction(c), Len(c.funcs) + 1, <<Mark(id, 4)>>), Len(c.funcs) + 1)

\* the test for children made after the id is assigned and the activation
\* marker is appended
IComposit_raise_late(e, func, abort, resultless, parent, cs) ==
  [AddCmds(AddCmds(NewNode(cs, e, parent, resultless),
                   abort, <<If(FlagIs(NextId(cs)), Cmd("flag_remove", NextId(cs), 0))>>),
           func, <<Cmd("flag_set", NextId(cs), 0)>>)
     EXCEPT !.err = "IndexError"]

\* IComposit._export_server and _export_entity when self.subs is empty:
\* raise IndexError("cannot export empty composit")
IComposit_raise(e, func, abort, resultless, parent, cs) ==
  [cs EXCEPT !.err = "IndexError"]

\* the _export_server method of e's class: Run, IWrapper (Invert, Infinit),
\* IComposit, and IEvent for the rest
_export_server(e, func, abort, init, resultless, parent, cs) ==
  IF cs.err # "none" THEN cs
  ELSE CASE e.kind = "Run" -> Run_export_server(e, func, abort, init, resultless, parent, cs)
    [] e.kind = "Invert" ->
         Bind(_export_server(e.subs[1], func, abort, init, resultless, parent, cs),
              LAMBDA c : Invert_exit(c, resultless))
    [] e.kind = "Infinit" ->
         Bind(_export_server(e.subs[1], func, abort, init, TRUE, parent,
                             [cs EXCEPT !.infinit = TRUE]),
              LAMBDA c : Infinit_exit(c, NextId(cs)))
    [] e.kind \in ICompositKinds /\ e.subs = <<>> ->
         IComposit_raise(e, func, abort, resultless, parent, cs)
    [] OTHER -> IEvent_export_server(e, func, abort, init, resultless, parent, cs)

\* IEvent.export_server after the tree has been exported: the guards of start
\* and init, and the clean-up appended to the root's exit
export_server_tail(c, main, init, _init, _main, rootid) ==
  AddCmds(AddCmds(AddCmds(c, main, <<If(FlagNot(rootid), CallFn(_main))>>),
                  init, <<If(FlagNot(rootid), CallFn(_init))>>),
          c.ret, <<Cmd("data_clear", 0, 0), Cmd("flags_clear", 0, 0)>>)

\* what is known of a compiled event: its functions and nodes, its entry
\* points, its root's id and exit
Program(c, main, abort, init, tick, rootid) ==
  [funcs |-> c.funcs, nodes |-> c.nodes, err |-> c.err,
   main |-> main, abort |-> abort, init |-> init, tick |-> tick,
   exit |-> c.ret, root |-> rootid, objs |-> c.objs, trigger |-> c.trigger]

\* IEvent.export_server: the named functions start (1), abort (2) and init
\* (3), then _init (4) and _main (5), then the tree
export_server(e) ==
  Bind(_export_server(e, 5, 2, 4, TRUE, 0,
         AddCmds(NewFunction(NewFunction(NewFunction(NewFunction(NewFunction(NewCompile))))),
                 5, <<CallFn(4)>>)),
       LAMBDA c : Program(export_server_tail(c, 1, 3, 4, 5, 1), 1, 2, 3, 0, 1))

----------------------------------------------------------------------------
(* The runtime: a single-threaded interpreter of the generated functions.   *)
(* A runtime state st holds the storage (flags, data, result), the entity's *)
(* tags and scores, the schedule queue, the ghost log, and the inputs of    *)
(* the step: o[id], the outcome of Run id's last command, and cond, the     *)
(* outcome of the polled condition.                                         *)

\* does the `execute if/unless` guard g let the command run in st
Holds(g, st) ==
  CASE g.k = "flag" -> (g.x \in st.flags) = (g.v = 1)
    [] g.k = "tag" -> (st.self /\ g.x \in st.tags) = (g.v = 1)
    [] g.k = "result" -> st.result = g.v
    [] g.k = "score" -> st.self /\ [k |-> g.k, x |-> g.x, v |-> g.v] \in st.scores
    [] OTHER -> [k |-> g.k, x |-> g.x, v |-> g.v] \in st.data

\* the schedule queue without function fn (schedule ... replace / clear)
Unschedule(q, fn) == SelectSeq(q, LAMBDA s : s.fn # fn)

\* `data modify ... set` of one numeric cell k of node x
SetCell(d, k, x, v) == {c \in d : ~(c.k = k /\ c.x = x)} \cup {[k |-> k, x |-> x, v |-> v]}

\* the value of cell k of node x, -1 when the cell does not exist
GetCell(d, k, x) ==
  IF \E c \in d : c.k = k /\ c.x = x
  THEN (CHOOSE c \in d : c.k = k /\ c.x = x).v
  ELSE -1

\* ghost: the log after node id has observed its condition with outcome v; a
\* run of equal observations of a node is kept as one record
PollRec(lg, id, v) ==
  LET own == {j \in DOMAIN lg : lg[j].id = id} IN
  IF own # {} /\ LET j == CHOOSE x \in own : \A y \in own : y <= x
                 IN lg[j].k = "poll" /\ lg[j].r = v
  THEN lg
  ELSE Append(lg, LogRec("poll", id, v, -1))

\* one command whose guards hold, other than a function call; a command on
\* @s does nothing when no entity executes the function (st.self is FALSE)
Effect(c, st) ==
  CASE c.op = "flag_set" -> [st EXCEPT !.flags = @ \cup {c.a}]
    [] c.op = "flag_remove" -> [st EXCEPT !.flags = @ \ {c.a}]
    [] c.op \in {"tag_add", "tag_remove", "score_set", "score_dec", "score_reset"}
       /\ ~st.self -> st
    [] c.op = "tag_add" -> [st EXCEPT !.tags = @ \cup {c.a}]
    [] c.op = "tag_remove" -> [st EXCEPT !.tags = @ \ {c.a}]
    [] c.op = "schedule" ->
         [st EXCEPT !.sched = Append(Unschedule(@, c.a), [fn |-> c.a, t |-> c.b]),
                    !.flags = IF c.s # 0 THEN @ \cup {c.s} ELSE @]
    [] c.op = "clear" -> [st EXCEPT !.sched = Unschedule(@, c.a)]
    [] c.op = "result_set" -> [st EXCEPT !.result = c.a]
    [] c.op = "invert" -> [st EXCEPT !.result = IF @ = 0 THEN 1 ELSE 0]
    \* `execute store result storage txbt: result byte 1 run <command>`: what
    \* the command returns (c.b) when it succeeds, 0 when it fails
    [] c.op = "run" ->
         IF c.b >= 1 THEN [st EXCEPT !.result = IF st.o[c.a] = 1 THEN c.b ELSE 0] ELSE st
    [] c.op = "condition" ->
         [st EXCEPT !.data = SetCell(@, "rlt", c.a, IF st.cond THEN 1 ELSE 0),
                    !.log = PollRec(@, c.a, IF st.cond THEN 1 ELSE 0)]
    [] c.op = "condition_result" ->
         [st EXCEPT !.result = IF st.cond THEN 1 ELSE 0,
                    !.log = PollRec(@, c.a, IF st.cond THEN 1 ELSE 0)]
    [] c.op = "count_set" -> [st EXCEPT !.data = SetCell(@, "count", c.a, c.b)]
    [] c.op = "count_dec" ->
         \* store result count (scale 0.99999) of `data get count`: n - 1 for
         \* a small positive n, and 0 when the cell is 0 or does not exist
         LET n == GetCell(st.data, "count", c.a) IN
         [st EXCEPT !.data = SetCell(@, "count", c.a, IF n > 0 THEN n - 1 ELSE 0)]
    [] c.op = "score_set" -> [st EXCEPT !.scores = SetCell(@, "score", c.a, c.b)]
    [] c.op = "score_dec" ->
         \* scoreboard players remove: a score that is not set counts from 0
         LET n == IF \E d \in st.scores : d.x = c.a
                  THEN GetCell(st.scores, "score", c.a) ELSE 0
         IN [st EXCEPT !.scores = SetCell(@, "score", c.a, n - 1)]
    [] c.op = "score_reset" -> [st EXCEPT !.scores = {d \in @ : d.x # c.a}]
    [] c.op = "data_remove" -> [st EXCEPT !.data = {d \in @ : d.x # c.a}]
    [] c.op = "data_clear" -> [st EXCEPT !.data = {}]
    [] c.op = "flags_clear" -> [st EXCEPT !.flags = {}]
    [] c.op = "mark" ->
         IF c.b = 3
         THEN [st EXCEPT !.log = IF @ = <<>> THEN @
                                 ELSE [@ EXCEPT ![Len(@)].r = st.result,
                                                ![Len(@)].inv = @ + 1]]
         ELSE [st EXCEPT !.log = Append(@, LogRec(CASE c.b = 1 -> "enter"
                                                    [] c.b = 2 -> "exit"
                                                    [] OTHER -> "infinit",
                                                  c.a, st.result,
                                                  IF c.a \in DOMAIN st.o THEN st.o[c.a] ELSE -1))]
    [] OTHER -> st

\* run commands lo..hi of function fn of program p in order; a call runs the
\* callee to its end before the next command.  (The range is halved so that
\* the evaluation nests no deeper than the calls do, and every intermediate
\* state is bound as a value before it is used.)
RECURSIVE Exec(_, _, _, _, _, _)
Exec(p, fn, lo, hi, st, depth) ==
  IF lo > hi \/ st.err # "none" THEN st
  ELSE IF lo = hi
  THEN LET c == p.funcs[fn][lo] IN
       IF \E j \in DOMAIN c.g : ~Holds(c.g[j], st) THEN st
       ELSE IF c.op \notin {"call", "call_as"} THEN Effect(c, st)
       ELSE IF depth = 0 THEN [st EXCEPT !.err = "depth"]
       ELSE IF c.op = "call" THEN Exec(p, c.a, 1, Len(p.funcs[c.a]), st, depth - 1)
       \* `execute as @e[tag=...] at @s run function`: once for the entity if
       \* it carries the tag, with @s bound to it
       ELSE IF c.b \notin st.tags THEN st
       ELSE [Exec(p, c.a, 1, Len(p.funcs[c.a]), [st EXCEPT !.self = TRUE], depth - 1)
               EXCEPT !.self = st.self]
  ELSE LET mid == (lo + hi) \div 2 IN
       CHOOSE r \in {Exec(p, fn, mid + 1, hi, st1, depth) :
                       st1 \in {Exec(p, fn, lo, mid, st, depth)}} : TRUE

\* `function fn`
Call(p, fn, st) ==
  CHOOSE r \in {Exec(p, fn, 1, Len(p.funcs[fn]), s, CallDepth) : s \in {st}} : TRUE

\* the scheduled functions that are due, in queue order; a function run here
\* may schedule or clear others
RECURSIVE RunDue(_, _, _)
RunDue(p, st, fuel) ==
  IF fuel = 0 \/ st.err # "none" \/ ~(\E j \in DOMAIN st.sched : st.sched[j].t = 0)
  THEN st
  ELSE LET j == CHOOSE j \in DOMAIN st.sched :
                  /\ st.sched[j].t = 0
                  /\ \A l \in 1..(j - 1) : st.sched[l].t # 0
           fn == st.sched[j].fn
       IN CHOOSE r \in {RunDue(p, st1, fuel - 1) :
                          st1 \in {Call(p, fn, [st EXCEPT !.sched = Unschedule(@, fn)])}} : TRUE

----------------------------------------------------------------------------
(* Code generation, entity backend (Run, Wait, Traverse and the wrappers).  *)
(* The storage flag of a node and its entity tag are both named by its id.  *)

RECURSIVE _export_entity(_, _, _, _, _, _, _, _)
RECURSIVE Traverse_main_entity(_, _, _, _, _, _, _, _, _, _, _)
RECURSIVE All_subs_entity(_, _, _, _, _, _, _, _, _, _, _, _, _)
RECURSIVE Any_subs_entity(_, _, _, _, _, _, _, _, _, _, _, _, _)
RECURSIVE ParallelTraverse_subs_entity(_, _, _, _, _, _, _, _, _, _)
RECURSIVE ParallelFirst_subs_entity(_, _, _, _, _, _, _, _, _, _, _)

\* Run._export_entity
Run_export_entity(e, func, abort, tick, init, resultless, parent, cs) ==
  LET id == NextId(cs) IN
  Return(AddCmds(NewNode(cs, e, parent, resultless), func,
                 <<Mark(id, 1), Cmd("run", id, IF resultless THEN 0 ELSE 1 + e.n),
                   Mark(id, 2), Cmd("flag_remove", id, 0)>>),
         func)

\* Wait.main_entity_with_state, the branch `self.tick != 1`
Wait_counter(c, e, func, tick, init, exit) ==
  AddCmds(AddCmds(AddCmds(AddCmds(c,
          init, <<Cmd("objective_add", c.obj, 0)>>),
          func, <<Cmd("score_set", c.obj, e.n)>>),
          tick, <<Cmd("score_dec", c.obj, 0), If(ScoreIs(c.obj, 0), CallFn(exit))>>),
          exit, <<Cmd("score_reset", c.obj, 0)>>)

\* Wait.main_entity_with_state; cs.id is self.id as the method leaves it
Wait_main_entity_with_state(e, id, func, abort, tick, init, resultless, cs) ==
  LET id2 == NextId(cs)
      exit == Len(cs.funcs) + 1
  IN Bind(NewFunction(AddCmds(AddCmds(Reassign(cs, id),
                              func, <<Cmd("tag_add", _ticking_tag, 0)>>),
                              abort, <<Cmd("tag_remove", _ticking_tag, 0)>>)),
       LAMBDA c : Bind(IF e.n = 1 THEN c
                       ELSE Bind(Holder(NextObjective(c), id),
                                 LAMBDA d : Wait_counter(d, e, func, tick, init, exit)),
         LAMBDA d : [Return(AddCmds(d, exit,
                              (IF ~resultless THEN <<Cmd("result_set", 1, 0)>> ELSE <<>>)
                                \o <<Cmd("tag_remove", _ticking_tag, 0)>>),
                            exit) EXCEPT !.id = id2]))

\* WaitUntil.main_entity
WaitUntil_main_entity(e, id, func, abort, tick, init, resultless, cs) ==
  LET enter == Len(cs.funcs) + 1
      exit == Len(cs.funcs) + 2
  IN [Return(AddCmds(AddCmds(AddCmds(AddCmds(NewFunction(NewFunction(cs)),
                func, <<Cmd("tag_add", _ticking_tag, 0), CallFn(enter)>>),
                abort, <<Cmd("tag_remove", _ticking_tag, 0), Cmd("clear", enter, 0)>>),
                enter, <<Cmd("condition_result", id, 0),
                         If(ResultIs(1), CallFn(exit)),
                         If(TagIs(id), If(ResultIs(0), Cmd("schedule", enter, 1)))>>),
                exit, <<Cmd("tag_remove", _ticking_tag, 0)>>),
             exit) EXCEPT !.res = 0, !.id = id]

\* WaitWhile.main_entity
WaitWhile_main_entity(e, id, func, abort, tick, init, resultless, cs) ==
  LET enter == Len(cs.funcs) + 1
      exit == Len(cs.funcs) + 2
  IN [Return(AddCmds(AddCmds(AddCmds(AddCmds(NewFunction(NewFunction(cs)),
                func, <<Cmd("tag_add", _ticking_tag, 0), CallFn(enter)>>),
                abort, <<Cmd("tag_remove", _ticking_tag, 0), Cmd("clear", enter, 0)>>),
                enter, <<Cmd("condition_result", id, 0),
                         If(ResultIs(0), CallFn(exit)),
                         If(TagIs(id), If(ResultIs(1), Cmd("schedule", enter, 1)))>>),
                exit, <<Cmd("tag_remove", _ticking_tag, 0)>>),
             exit) EXCEPT !.res = 0, !.id = id]

\* WaitFunctionCall.main_entity: the trigger runs exit as, and at, the entity
\* that carries the node's tag
WaitFunctionCall_main_entity(e, id, func, abort, tick, init, resultless, cs) ==
  Bind(Trigger(cs),
       LAMBDA c : LET exit == Len(c.funcs) + 1 IN
         [Return(AddCmds(AddCmds(AddCmds(AddCmds(NewFunction(c),
                   c.trigger, <<Cmd("call_as", exit, id)>>),
                   func, <<Cmd("tag_add", _ticking_tag, 0)>>),
                   abort, <<Cmd("tag_remove", _ticking_tag, 0)>>),
                   exit, <<Cmd("tag_remove", _ticking_tag, 0)>>),
                 exit) EXCEPT !.res = 1, !.id = id])

\* LoopWhile.main_entity
LoopWhile_main_entity(e, id, func, abort, tick, init, resultless, cs) ==
  LET exit == Len(cs.funcs) + 1
      enter == Len(cs.funcs) + 2
  IN IF isInfinite(e.subs[1])
     THEN [_export_entity(e.subs[1], func, abort, tick, init, TRUE, id, cs)
             EXCEPT !.res = -1, !.id = id]
     ELSE Bind(_export_entity(e.subs[1], func, abort, tick, init, FALSE, id,
                              AddCmds(NewFunction(NewFunction(cs)), func, <<CallFn(enter)>>)),
            LAMBDA c : [Return(AddCmds(c, c.ret,
                                 <<If(ResultIs(0), CallFn(exit)),
                                   If(TagIs(id), If(ResultIs(1), CallFn(enter)))>>),
                               exit) EXCEPT !.res = 0, !.id = id])

\* LoopUntil.main_entity
LoopUntil_main_entity(e, id, func, abort, tick, init, resultless, cs) ==
  LET exit == Len(cs.funcs) + 1
      enter == Len(cs.funcs) + 2
  IN IF isInfinite(e.subs[1])
     THEN [_export_entity(e.subs[1], func, abort, tick, init, TRUE, id, cs)
             EXCEPT !.res = -1, !.id = id]
     ELSE Bind(_export_entity(e.subs[1], func, abort, tick, init, FALSE, id,
                              AddCmds(NewFunction(NewFunction(cs)), func, <<CallFn(enter)>>)),
            LAMBDA c : [Return(AddCmds(c, c.ret,
                                 <<If(ResultIs(1), CallFn(exit)),
                                   If(TagIs(id), If(ResultIs(0), CallFn(enter)))>>),
                               exit) EXCEPT !.res = 0, !.id = id])

\* LoopInfinit.main_entity
LoopInfinit_main_entity(e, id, func, abort, tick, init, resultless, cs) ==
  LET exit == Len(cs.funcs) + 1
      enter == Len(cs.funcs) + 2
  IN Bind(_export_entity(e.subs[1], func, abort, tick, init, TRUE, id,
                         AddCmds(NewFunction(NewFunction(cs)), func, <<CallFn(enter)>>)),
       LAMBDA c : [Return(AddCmds(c, c.ret, <<CallFn(enter)>>), exit)
                     EXCEPT !.res = -1, !.id = id])

\* max(max_index, ObjectiveIterator.main.index)
MaxIndex(a, b) == IF a > b THEN a ELSE b

\* Traverse.main_entity: the loop over self.subs from index i
Traverse_main_entity(e, i, id, func, abort, tick, init, resultless, min_index, max_index, cs) ==
  LET sub == e.subs[i] IN
  IF isInfinite(sub) \/ i = Len(e.subs)
  THEN Bind(_export_entity(sub, func, abort, tick, init,
                           IF isInfinite(sub) THEN TRUE ELSE resultless, id, cs),
            LAMBDA c : [c EXCEPT !.obj = MaxIndex(max_index, c.obj), !.id = id])
  ELSE Bind(_export_entity(sub, func, abort, tick, init, TRUE, id, cs),
            LAMBDA c : Traverse_main_entity(e, i + 1, id, c.ret, abort, tick, init,
                                            resultless, min_index,
                                            MaxIndex(max_index, c.obj),
                                            [c EXCEPT !.obj = min_index]))

\* All.main_entity_with_state with the allocator left where the child put it
All_link_entity_no_rewind(c, id, fail, min_index) ==
  AddCmds(NewFunction(c), c.ret,
          <<If(ResultIs(0), CallFn(fail)),
            If(TagIs(id), If(ResultIs(1), CallFn(Len(c.funcs) + 1)))>>)

\* All.main_entity_with_state, after a child that is not the last: the
\* allocator is rewound to min_index, then `next`
All_link_entity(c, id, fail, min_index) ==
  AddCmds(NewFunction([c EXCEPT !.obj = min_index]), c.ret,
          <<If(ResultIs(0), CallFn(fail)),
            If(TagIs(id), If(ResultIs(1), CallFn(Len(c.funcs) + 1)))>>)

\* All.main_entity_with_state: the loop over self.subs from index i
All_subs_entity(e, i, id, func, fail, exit, abort, tick, init, resultless, min_index, max_index, cs) ==
  LET sub == e.subs[i] IN
  IF isInfinite(sub)
  THEN Bind(_export_entity(sub, func, abort, tick, init, TRUE, id, cs),
            LAMBDA c : [c EXCEPT !.obj = MaxIndex(max_index, c.obj), !.id = id])
  ELSE IF i < Len(e.subs)
  THEN Bind(_export_entity(sub, func, abort, tick, init, FALSE, id, cs),
            LAMBDA c : Bind(All_link_entity(c, id, fail, min_index),
              LAMBDA d : All_subs_entity(e, i + 1, id, Len(c.funcs) + 1, fail, exit,
                                         abort, tick, init, resultless, min_index,
                                         MaxIndex(max_index, c.obj), d)))
  ELSE Bind(_export_entity(sub, func, abort, tick, init, resultless, id, cs),
            LAMBDA c : [All_tail(c, fail, exit, resultless)
                          EXCEPT !.obj = MaxIndex(max_index, c.obj), !.id = id])

All_main_entity_with_state(e, id, func, abort, tick, init, resultless, index, cs) ==
  All_subs_entity(e, 1, id, func, Len(cs.funcs) + 1, Len(cs.funcs) + 2,
                  abort, tick, init, resultless, index, index,
                  NewFunction(NewFunction(cs)))

\* Any.main_entity_with_state, after a child that is not the last: the
\* allocator is rewound to min_index, then `next`
Any_link_entity(c, id, success, min_index) ==
  AddCmds(NewFunction([c EXCEPT !.obj = min_index]), c.ret,
          <<If(ResultIs(1), CallFn(success)),
            If(TagIs(id), If(ResultIs(0), CallFn(Len(c.funcs) + 1)))>>)

\* Any.main_entity_with_state: the loop over self.subs from index i
Any_subs_entity(e, i, id, func, success, exit, abort, tick, init, resultless, min_index, max_index, cs) ==
  LET sub == e.subs[i] IN
  IF isInfinite(sub)
  THEN Bind(_export_entity(sub, func, abort, tick, init, TRUE, id, cs),
            LAMBDA c : [c EXCEPT !.obj = MaxIndex(max_index, c.obj), !.id = id])
  ELSE IF i < Len(e.subs)
  THEN Bind(_export_entity(sub, func, abort, tick, init, FALSE, id, cs),
            LAMBDA c : Bind(Any_link_entity(c, id, success, min_index),
              LAMBDA d : Any_subs_entity(e, i + 1, id, Len(c.funcs) + 1, success, exit,
                                         abort, tick, init, resultless, min_index,
                                         MaxIndex(max_index, c.obj), d)))
  ELSE Bind(_export_entity(sub, func, abort, tick, init, resultless, id, cs),
            LAMBDA c : [Any_tail(c, success, exit, resultless)
                          EXCEPT !.obj = MaxIndex(max_index, c.obj), !.id = id])

Any_main_entity_with_state(e, id, func, abort, tick, init, resultless, index, cs) ==
  Any_subs_entity(e, 1, id, func, Len(cs.funcs) + 1, Len(cs.funcs) + 2,
                  abort, tick, init, resultless, index, index,
                  NewFunction(NewFunction(cs)))

\* ParallelTraverse.main_entity_with_state: `for sub in self.subs` from
\* index i; obj is the objective of the count, -1 in the isInfinite branch
ParallelTraverse_subs_entity(e, i, id, func, exit, abort, tick, init, obj, cs) ==
  IF i > Len(e.subs) THEN cs
  ELSE Bind(_export_entity(e.subs[i], func, abort, tick, init, TRUE, id, cs),
            LAMBDA c : Bind(IF obj # -1
                            THEN AddCmds(c, c.ret, <<Cmd("score_dec", obj, 0),
                                                     If(ScoreIs(obj, 0), CallFn(exit))>>)
                            ELSE c,
              LAMBDA d : ParallelTraverse_subs_entity(e, i + 1, id, func, exit,
                                                      abort, tick, init, obj, d)))

ParallelTraverse_main_entity_with_state(e, id, func, abort, tick, init, resultless, cs) ==
  LET exit == Len(cs.funcs) + 1 IN
  IF isInfinite(e)
  THEN [Return(ParallelTraverse_subs_entity(e, 1, id, func, exit, abort, tick, init, -1,
                                            NewFunction(cs)),
               exit) EXCEPT !.id = id]
  ELSE Bind(Holder(NextObjective(NewFunction(cs)), id),
         LAMBDA c : Bind(ParallelTraverse_subs_entity(e, 1, id, func, exit, abort, tick,
                           init, c.obj,
                           AddCmds(c, func, <<Cmd("score_set", c.obj, Len(e.subs))>>)),
           LAMBDA d : [Return(AddCmds(d, exit,
                                IF ~resultless THEN <<Cmd("result_set", 1, 0)>> ELSE <<>>),
                              exit) EXCEPT !.id = id]))

\* ParallelFirst.main_entity_with_state: the loop over self.subs from index i
ParallelFirst_subs_entity(e, i, id, func, exit, abt, abort, tick, init, resultless, cs) ==
  IF i > Len(e.subs) THEN cs
  ELSE Bind(_export_entity(e.subs[i], func, abt, tick, init, resultless, id,
                           AddCmds(NewFunction(cs), func,
                                   <<If(TagIs(id), CallFn(Len(cs.funcs) + 1))>>)),
            LAMBDA c : Bind(IF ~isInfinite(e.subs[i])
                            THEN AddCmds(c, c.ret, <<CallFn(exit)>>) ELSE c,
              LAMBDA d : ParallelFirst_subs_entity(e, i + 1, id, func, exit, abt,
                                                   abort, tick, init, resultless, d)))

ParallelFirst_main_entity_with_state(e, id, func, abort, tick, init, resultless, cs) ==
  LET exit == Len(cs.funcs) + 1
      abt == Len(cs.funcs) + 2
  IN [Return(AddCmds(AddCmds(
               ParallelFirst_subs_entity(e, 1, id, func, exit, abt, abort, tick, init,
                                         resultless, NewFunction(NewFunction(cs))),
               abort, <<CallFn(abt)>>),
               exit, IF ~isInfinite(e) THEN <<CallFn(abt)>> ELSE <<>>),
             exit) EXCEPT !.id = id]

\* IEvent.main_entity_with_state, with the override of Wait; index is
\* ObjectiveIterator.main.index when the method is entered
main_entity_with_state(e, id, func, abort, tick, init, resultless, index, cs) ==
  CASE e.kind = "Wait" ->
         Wait_main_entity_with_state(e, id, func, abort, tick, init, resultless, cs)
    [] e.kind = "All" ->
         All_main_entity_with_state(e, id, func, abort, tick, init, resultless, index, cs)
    [] e.kind = "Any" ->
         Any_main_entity_with_state(e, id, func, abort, tick, init, resultless, index, cs)
    [] e.kind = "ParallelTraverse" ->
         ParallelTraverse_main_entity_with_state(e, id, func, abort, tick, init,
                                                 resultless, cs)
    [] e.kind = "ParallelFirst" ->
         ParallelFirst_main_entity_with_state(e, id, func, abort, tick, init,
                                              resultless, cs)
    [] e.kind = "WaitUntil" ->
         Bind(WaitUntil_main_entity(e, id, func, abort, tick, init, resultless, cs),
              LAMBDA c : IEvent_result(c, resultless))
    [] e.kind = "WaitWhile" ->
         Bind(WaitWhile_main_entity(e, id, func, abort, tick, init, resultless, cs),
              LAMBDA c : IEvent_result(c, resultless))
    [] e.kind = "WaitFunctionCall" ->
         Bind(WaitFunctionCall_main_entity(e, id, func, abort, tick, init, resultless, cs),
              LAMBDA c : IEvent_result(c, resultless))
    [] e.kind = "LoopWhile" ->
         Bind(LoopWhile_main_entity(e, id, func, abort, tick, init, resultless, cs),
              LAMBDA c : IEvent_result(c, resultless))
    [] e.kind = "LoopUntil" ->
         Bind(LoopUntil_main_entity(e, id, func, abort, tick, init, resultless, cs),
              LAMBDA c : IEvent_result(c, resultless))
    [] e.kind = "LoopInfinit" ->
         Bind(LoopInfinit_main_entity(e, id, func, abort, tick, init, resultless, cs),
              LAMBDA c : IEvent_result(c, resultless))
    [] OTHER ->
         Traverse_main_entity(e, 1, id, func, abort, tick, init, resultless,
                              index, index, cs)

\* IEvent._export_entity after main_entity_with_state has returned exit
IEvent_exit_entity(c, id) ==
  Return(AddCmds(c, c.ret, <<Mark(id, 2), Cmd("tag_remove", c.id, 0)>>), c.ret)

\* IEvent._export_entity
IEvent_export_entity(e, func, abort, tick, init, resultless, parent, cs) ==
  LET id == NextId(cs)
      _abort == Len(cs.funcs) + 1
      _tick == Len(cs.funcs) + 2
      c8 == AddCmds(AddCmds(AddCmds(AddCmds(
              NewFunction(NewFunction(NewNode(cs, e, parent, resultless))),
              _abort, <<Cmd("tag_remove", id, 0)>>),
              abort, <<If(TagIs(id), CallFn(_abort))>>),
              func, <<Cmd("tag_add", id, 0), Mark(id, 1)>>),
              tick, <<If(TagIs(id), CallFn(_tick))>>)
  IN Bind(main_entity_with_state(e, id, func, _abort, _tick, init, resultless, cs.obj, c8),
          LAMBDA c : IEvent_exit_entity(c, id))

\* the _export_entity method of e's class
_export_entity(e, func, abort, tick, init, resultless, parent, cs) ==
  IF cs.err # "none" THEN cs
  ELSE CASE e.kind = "Run" -> Run_export_entity(e, func, abort, tick, init, resultless, parent, cs)
    [] e.kind = "Invert" ->
         Bind(_export_entity(e.subs[1], func, abort, tick, init, TRUE, parent, cs),
              LAMBDA c : Invert_exit(c, resultless))
    [] e.kind = "Infinit" ->
         Bind(_export_entity(e.subs[1], func, abort, tick, init, TRUE, parent,
                             [cs EXCEPT !.infinit = TRUE]),
              LAMBDA c : Infinit_exit(c, NextId(cs)))
    [] e.kind \in ICompositKinds /\ e.subs = <<>> ->
         IComposit_raise(e, func, abort, resultless, parent, cs)
    [] e.kind \in Composits ->
         IEvent_export_entity(e, func, abort, tick, init, TRUE, parent, cs)
    [] OTHER -> IEvent_export_entity(e, func, abort, tick, init, resultless, parent, cs)

\* The caller of _export_entity: the functions an entity runs to start (1)
\* and to abort (2) the event, init (3) and the function run by the per-tick
\* hook (4); ObjectiveIterator.main is a fresh iterator
export_entity(e) ==
  Bind(_export_entity(e, 1, 2, 4, 3, TRUE, 0,
                      NewFunction(NewFunction(NewFunction(NewFunction(NewCompile))))),
       LAMBDA c : Program(c, 1, 2, 3, 4, 1))

----------------------------------------------------------------------------
(* The event trees the runtime specification starts from: a node over up to *)
(* MaxChildren leaves, alone or as a child of a second composite.           *)

Leaves == {Run, WaitUntil} \cup {Wait(n) : n \in 1..MaxTick}
Kids == Leaves \cup {Infinit(Run)}
Siblings == {Run, Wait(MaxTick)}
Level1 ==
  Leaves \cup {Invert(l) : l \in Leaves} \cup {Infinit(l) : l \in Leaves}
    \cup {Ev(K, 0, subs) : K \in Composits,
                            subs \in UNION {[1..k -> Kids] : k \in 1..MaxChildren}}
Trees ==
  Level1
    \cup {Ev(K, 0, <<x, l>>) : K \in Composits, x \in Level1, l \in Siblings}
    \cup {Ev(K, 0, <<l, x>>) : K \in Composits, x \in Level1, l \in Siblings}
    \cup {All(<<x, Run, Run>>) : x \in Level1}

\* the classes whose entity backend is modelled
RECURSIVE EntityModelled(_)
EntityModelled(e) ==
  /\ e.kind \in {"Run", "Wait", "Traverse", "Invert", "Infinit"}
  /\ \A i \in DOMAIN e.subs : EntityModelled(e.subs[i])

(* The event trees of the loop specification: a loop over a body, alone or  *)
(* followed by a Run, and bodies and loops as the first child of an All     *)
LoopBodies ==
  {Run, Wait(1), WaitUntil, WaitWhile, Invert(Run), Invert(Invert(Run)),
   Traverse(<<Wait(1), Run>>)}
Loops == {Ev(K, 0, <<b>>) : K \in {"LoopWhile", "LoopUntil", "LoopInfinit"}, b \in LoopBodies}
LoopTrees ==
  LoopBodies \cup Loops
    \cup {Traverse(<<l, Run>>) : l \in Loops}
    \cup {All(<<b, Run>>) : b \in LoopBodies \cup Loops}

\* the classes whose entity backend is modelled in the loop specification
RECURSIVE EntityModelledLoop(_)
EntityModelledLoop(e) ==
  /\ e.kind \notin {"All", "Any", "ParallelTraverse", "ParallelFirst"}
  /\ \A i \in DOMAIN e.subs : EntityModelledLoop(e.subs[i])

----------------------------------------------------------------------------
(* Runtime actions: what the world does with a compiled event.              *)

RunIds == {i \in DOMAIN prog.nodes : prog.nodes[i].kind = "Run"}
Outcomes == [RunIds -> {0, 1}]

\* is the root's activation marker set
Active == prog.root \in (flags \cup tags)

St(o) ==
  [flags |-> flags, tags |-> tags, data |-> data, scores |-> scores,
   result |-> result, sched |-> sched, log |-> log, cond |-> cond,
   o |-> o, self |-> backend = "entity", err |-> "none"]

Commit(st) ==
  /\ st.err = "none"
  /\ flags' = st.flags
  /\ tags' = st.tags
  /\ data' = st.data
  /\ scores' = st.scores
  /\ result' = st.result
  /\ sched' = st.sched
  /\ log' = st.log
  /\ UNCHANGED <<gvars, avars, tree, backend, prog, cond>>

\* `function <path>start` (server) / the entity runs the entry function
Start ==
  /\ prog # <<>>
  /\ ~Active
  /\ \E o \in Outcomes :
       \E st \in {Call(prog, prog.main, [St(o) EXCEPT !.log = <<>>])} : Commit(st)

\* `function <path>abort` while the event is active
Abort ==
  /\ prog # <<>>
  /\ Active
  /\ Len(log) < MaxLog
  /\ \E o \in Outcomes :
       \E st \in {Call(prog, prog.abort, St(o))} :
       Commit([st EXCEPT !.log = Append(@, LogRec("abort", prog.root, st.result, -1))])

\* ghost: the log record of a game tick of the schedule queue ("tick") or of
\* the entity's tick function ("etick")
\* consecutive ticks share a record, which counts them up to MaxTick + 1
TickRec(k) ==
  IF log # <<>> /\ log[Len(log)].k = k
  THEN [log EXCEPT ![Len(log)].n = IF @ > MaxTick THEN @ ELSE @ + 1]
  ELSE Append(log, LogRec(k, 0, result, -1))

\* one game tick of the schedule queue: the functions that fall due run, in
\* queue order
Tick ==
  /\ prog # <<>>
  /\ sched # <<>>
  /\ Len(log) < MaxLog
  /\ \E o \in Outcomes :
       \E st1 \in {[St(o) EXCEPT !.sched = [j \in DOMAIN @ |-> [@[j] EXCEPT !.t = @ - 1]],
                                 !.log = TickRec("tick"), !.self = FALSE]} :
         \E st2 \in {RunDue(prog, st1, Len(st1.sched))} : Commit(st2)

\* one game tick of an entity that carries the ticking tag: the per-tick hook
\* runs the tick function as that entity
EntityTick ==
  /\ prog # <<>>
  /\ backend = "entity"
  /\ _ticking_tag \in tags
  /\ \A d \in scores : d.v > -MaxDebt
  /\ Len(log) < MaxLog
  /\ \E o \in Outcomes :
       \E st \in {Call(prog, prog.tick, [St(o) EXCEPT !.log = TickRec("etick")])} :
         Commit(st)

\* the world changes what the polled condition evaluates to
ToggleCond ==
  /\ prog # <<>>
  /\ cond' = ~cond
  /\ UNCHANGED <<gvars, avars, tree, backend, prog, flags, tags, data, scores, result, sched, log>>

InitRt ==
  /\ GraphInit
  /\ AlgIdle
  /\ tree \in Trees
  /\ backend \in {"server", "entity"}
  /\ backend = "entity" => EntityModelled(tree)
  /\ prog = IF backend = "server" THEN export_server(tree) ELSE export_entity(tree)
  /\ flags = {}
  /\ tags = {}
  /\ data = {}
  /\ scores = {}
  /\ result = -1
  /\ sched = <<>>
  /\ cond = FALSE
  /\ log = <<>>

NextRt == Start \/ Abort \/ Tick \/ EntityTick \/ ToggleCond

SpecRt == InitRt /\ [][NextRt]_vars

\* the loop specification: the same runtime over the trees with loops
InitLoop ==
  /\ GraphInit
  /\ AlgIdle
  /\ tree \in LoopTrees
  /\ backend \in {"server", "entity"}
  /\ backend = "entity" => EntityModelledLoop(tree)
  /\ prog = IF backend = "server" THEN export_server(tree) ELSE export_entity(tree)
  /\ flags = {}
  /\ tags = {}
  /\ data = {}
  /\ scores = {}
  /\ result = -1
  /\ sched = <<>>
  /\ cond = FALSE
  /\ log = <<>>

SpecLoop == InitLoop /\ [][NextRt]_vars

----------------------------------------------------------------------------
(* Properties of the generated programs, read off the log of the current    *)
(* activation of the root.                                                   *)

Nodes == {i \in DOMAIN prog.nodes : prog.nodes[i].of = i}
NodesOf(kind) == {i \in Nodes : prog.nodes[i].kind = kind}
Children(p) == {i \in Nodes : prog.nodes[i].parent = p}
RECURSIVE DescendantsWithin(_, _)
DescendantsWithin(p, n) ==
  IF n = 0 THEN {}
  ELSE Children(p) \cup UNION {DescendantsWithin(c, n - 1) : c \in Children(p)}
Descendants(p) == DescendantsWithin(p, Len(prog.nodes))

IsEnter(j, i) == log[j].k = "enter" /\ log[j].id = i
IsExit(j, i) == log[j].k = "exit" /\ log[j].id = i
\* positions i < j of the log lie in the same activation of node p
SameActivation(p, i, j) == ~\E k \in (i + 1)..(j - 1) : IsEnter(k, p)
\* the last record of node i in the log is its exit
Exited(i) ==
  \E j \in DOMAIN log : IsExit(j, i) /\ \A k \in (j + 1)..Len(log) : log[k].id # i
Aborted == log # <<>> /\ log[Len(log)].k = "abort"
\* the functions of node i that a schedule can hold: its exit or poll function
Pending(i) == \E j \in DOMAIN sched : \E q \in DOMAIN prog.funcs[sched[j].fn] :
                LET c == prog.funcs[sched[j].fn][q] IN
                \/ c.op = "mark" /\ c.a = i /\ c.b = 2
                \/ c.op \in {"condition", "condition_result"} /\ c.a = i

\* C4: after the root's abort function has run while the root was active, no
\* activation marker is set and no schedule is pending for the root or any of
\* its descendants, and the root's exit is not reached afterwards
C4_AbortLeavesNothing ==
  /\ Aborted => \A i \in {prog.root} \cup Descendants(prog.root) :
                  i \notin flags /\ i \notin tags /\ ~Pending(i)
  /\ \A i, j \in DOMAIN log : i < j /\ log[i].k = "abort" => ~IsExit(j, prog.root)

\* C5: in both backends the marker a node sets on entry is not set once the
\* node's exit has run, nor once the root's abort has run
C5_MarkerCleared ==
  /\ \A i \in Nodes : Exited(i) => i \notin flags /\ i \notin tags
  /\ Aborted => prog.root \notin flags /\ prog.root \notin tags

\* C6: once ParallelFirst's exit has run no child of it is active and none is
\* started in that activation
C6_NoChildAfterExit ==
  \A p \in NodesOf("ParallelFirst") :
    /\ Exited(p) => \A c \in Children(p) : c \notin flags /\ ~Pending(c)
    /\ \A i, j \in DOMAIN log : \A c \in Children(p) :
         i < j /\ IsExit(i, p) /\ IsEnter(j, c) => ~SameActivation(p, i, j)

\* C7: ParallelFirst's exit runs at most once per activation
C7_ExitAtMostOnce ==
  \A p \in NodesOf("ParallelFirst") : \A i, j \in DOMAIN log :
    i < j /\ IsExit(i, p) /\ IsExit(j, p) => ~SameActivation(p, i, j)

\* C8: a ParallelTraverse of non-infinite children exits once per activation,
\* only after every child has exited in that activation, with result success
C8_ParallelTraverseJoins ==
  \A p \in NodesOf("ParallelTraverse") : ~prog.nodes[p].inf =>
    \A j \in DOMAIN log : IsExit(j, p) =>
      /\ \A c \in Children(p) : \E i \in 1..(j - 1) : IsExit(i, c) /\ SameActivation(p, i, j)
      /\ \A i \in 1..(j - 1) : IsExit(i, p) => ~SameActivation(p, i, j)
      /\ ~prog.nodes[p].resultless => log[j].r = 1

\* C9: when a child of All exits with failure, All's exit runs with result
\* failure and no later child is started; when the last child exits, All's
\* exit runs with that child's result
C9_AllFailFast ==
  \A a \in NodesOf("All") : \A c \in Children(a) : \A i \in DOMAIN log :
    IsExit(i, c) /\ ~prog.nodes[c].resultless /\ (log[i].r = 0 \/ \A d \in Children(a) : d <= c) =>
      /\ \E j \in (i + 1)..Len(log) :
           /\ IsExit(j, a)
           /\ ~prog.nodes[a].resultless => log[j].r = log[i].r
      /\ \A j \in (i + 1)..Len(log) : \A d \in Children(a) :
           d > c /\ IsEnter(j, d) => ~SameActivation(a, i, j)

\* C10: once a child of Any has exited with success, Any's exit runs with
\* result success and no later child is started in that activation
C10_AnyShortCircuit ==
  \A a \in NodesOf("Any") : \A c \in Children(a) : \A i \in DOMAIN log :
    IsExit(i, c) /\ ~prog.nodes[c].resultless /\ log[i].r = 1 =>
      /\ \E j \in (i + 1)..Len(log) :
           /\ IsExit(j, a)
           /\ ~prog.nodes[a].resultless => log[j].r = 1
      /\ \A j \in (i + 1)..Len(log) : \A d \in Children(a) :
           d > c /\ IsEnter(j, d) => ~SameActivation(a, i, j)

\* the child of p that follows child c, as a set (empty for the last child)
NextChild(p, c) == {d \in Children(p) : d > c /\ \A x \in Children(p) : x > c => d <= x}
LastChild(p) == CHOOSE c \in Children(p) : \A x \in Children(p) : x <= c
\* the position of the last exit of node c before position j of the log
LastExit(c, j) == CHOOSE i \in 1..(j - 1) : IsExit(i, c) /\ \A k \in (i + 1)..(j - 1) : ~IsExit(k, c)

\* C11: in a Traverse of non-infinite children a child is entered only after
\* the child before it has exited, no child is entered twice in one
\* activation, and at Traverse's exit every child has exited and, unless
\* resultless, the result cell holds what it held at the last child's exit
C11_TraverseSequence ==
  \A t \in NodesOf("Traverse") : ~prog.nodes[t].inf =>
    /\ \A c \in Children(t) : \A d \in NextChild(t, c) : \A j \in DOMAIN log :
         IsEnter(j, d) => \E i \in 1..(j - 1) : IsExit(i, c) /\ SameActivation(t, i, j)
    /\ \A c \in Children(t) : \A i, j \in DOMAIN log :
         i < j /\ IsEnter(i, c) /\ IsEnter(j, c) => ~SameActivation(t, i, j)
    /\ \A j \in DOMAIN log : IsExit(j, t) =>
         /\ \A c \in Children(t) : \E i \in 1..(j - 1) : IsExit(i, c) /\ SameActivation(t, i, j)
         /\ ~prog.nodes[t].resultless => log[j].r = log[LastExit(LastChild(t), j)].r

\* the nodes above node i
RECURSIVE AncestorsWithin(_, _)
AncestorsWithin(i, n) ==
  IF n = 0 \/ i = 0 \/ prog.nodes[i].parent = 0 THEN {}
  ELSE {prog.nodes[i].parent} \cup AncestorsWithin(prog.nodes[i].parent, n - 1)
Ancestors(i) == AncestorsWithin(i, Len(prog.nodes))
\* the game ticks that a Wait counts between positions i and j of the log:
\* ticks of the schedule queue (server), runs of the tick function (entity)
RECURSIVE TicksBetween(_, _)
TicksBetween(i, j) ==
  IF i + 1 >= j THEN 0
  ELSE TicksBetween(i + 1, j)
       + (IF log[i + 1].k = (IF backend = "server" THEN "tick" ELSE "etick")
          THEN log[i + 1].n ELSE 0)
AbortedAfter(i) == \E k \in (i + 1)..Len(log) : log[k].k = "abort"

\* C12: in both backends a Wait(n) that was entered and is not aborted exits
\* once, n ticks after its entry, and unless resultless with result success
C12_WaitExitsAfterN ==
  \A w \in NodesOf("Wait") : \A i \in DOMAIN log : IsEnter(i, w) =>
    /\ \A j \in (i + 1)..Len(log) : IsExit(j, w) /\ SameActivation(w, i, j) =>
         /\ TicksBetween(i, j) = prog.nodes[w].n
         /\ \A k \in (i + 1)..(j - 1) : ~IsExit(k, w)
         /\ ~prog.nodes[w].resultless => log[j].own = 1
    /\ (/\ ~AbortedAfter(i)
        /\ \A a \in Ancestors(w) : prog.nodes[a].kind # "ParallelFirst"
        /\ SameActivation(w, i, Len(log) + 1)
        /\ TicksBetween(i, Len(log) + 1) >= prog.nodes[w].n)
       => \E j \in (i + 1)..Len(log) : IsExit(j, w)

IsPoll(j, i) == log[j].k = "poll" /\ log[j].id = i
\* the outcome of the condition on which the node exits
ExitsOn(w) == IF prog.nodes[w].kind = "WaitUntil" THEN 1 ELSE 0
\* the function that polls the condition of node w is scheduled for the next tick
PollScheduled(w) ==
  \E j \in DOMAIN sched :
    /\ sched[j].t = 1
    /\ \E q \in DOMAIN prog.funcs[sched[j].fn] :
         LET c == prog.funcs[sched[j].fn][q] IN
         c.op \in {"condition", "condition_result"} /\ c.a = w
\* the last record of node w in the log, as a set of positions
LastOf(w) == {j \in DOMAIN log : log[j].id = w /\ \A k \in (j + 1)..Len(log) : log[k].id # w}

\* C13: in both backends WaitUntil exits when its condition is first observed
\* to hold, with result 1, WaitWhile when its condition is first observed not
\* to hold, with result 0; they exit on no other observation, and after any
\* other observation the next poll is scheduled one tick later
C13_PollUntilExit ==
  \A w \in NodesOf("WaitUntil") \cup NodesOf("WaitWhile") :
    /\ \A p \in DOMAIN log : IsPoll(p, w) /\ log[p].r = ExitsOn(w) =>
         \E j \in (p + 1)..Len(log) :
           /\ IsExit(j, w)
           /\ \A k \in (p + 1)..(j - 1) : log[k].id # w
           /\ ~prog.nodes[w].resultless => log[j].own = ExitsOn(w)
    /\ \A j \in DOMAIN log : IsExit(j, w) =>
         \E p \in 1..(j - 1) :
           /\ IsPoll(p, w) /\ log[p].r = ExitsOn(w)
           /\ \A k \in (p + 1)..(j - 1) : log[k].id # w
    /\ \A p \in LastOf(w) :
         (/\ IsPoll(p, w) /\ log[p].r # ExitsOn(w)
          /\ ~AbortedAfter(p)
          /\ \A a \in Ancestors(w) : prog.nodes[a].kind # "ParallelFirst")
         => PollScheduled(w)

\* the first position after i of the log whose record is about a node of S,
\* as a set
NextOf(i, S) ==
  {j \in (i + 1)..Len(log) : log[j].id \in S /\ \A k \in (i + 1)..(j - 1) : log[k].id \notin S}
AbortedBefore(i) == \E k \in 1..(i - 1) : log[k].k = "abort"
\* the result on which the loop runs its exit (none for LoopInfinit)
StopsOn(l) ==
  CASE prog.nodes[l].kind = "LoopWhile" -> 0
    [] prog.nodes[l].kind = "LoopUntil" -> 1
    [] OTHER -> 2

\* C14: in both backends, when the child of a loop exits with the result on
\* which the loop stops (failure for LoopWhile, success for LoopUntil) the
\* next thing the loop does is run its exit, with that result unless
\* resultless; on every other exit of the child (every exit for LoopInfinit)
\* the next thing is the re-entry of the child
C14_LoopReenters ==
  \A l \in NodesOf("LoopWhile") \cup NodesOf("LoopUntil") \cup NodesOf("LoopInfinit") :
    ~prog.nodes[l].inf \/ prog.nodes[l].kind = "LoopInfinit" =>
      \A c \in Children(l) : \A i \in DOMAIN log :
        IsExit(i, c) /\ ~AbortedBefore(i) =>
          /\ NextOf(i, {l, c}) # {}
          /\ \A j \in NextOf(i, {l, c}) :
               IF log[i].r = StopsOn(l)
               THEN /\ IsExit(j, l)
                    /\ ~prog.nodes[l].resultless => log[j].own = StopsOn(l)
               ELSE IsEnter(j, c)

\* the result a Run or a Wait reports at the exit recorded at position j: the
\* outcome of the Run's last command, success for a Wait
OwnResult(j) == IF log[j].o # -1 THEN log[j].o ELSE 1
\* the Invert write `store success result if result = 0`
HasInvertWrite ==
  \E f \in DOMAIN prog.funcs : \E q \in DOMAIN prog.funcs[f] : prog.funcs[f][q].op = "invert"

\* C15: in both backends the result cell after an Invert compiled with
\* resultless=false is the negation of its child's result, after two such
\* Inverts it is the child's result; an Invert compiled with resultless=true
\* adds no write to the result cell
C15_InvertNegates ==
  /\ \A c \in NodesOf("Run") \cup NodesOf("Wait") : \A j \in DOMAIN log : IsExit(j, c) =>
       /\ log[j].inv = 1 => log[j].r = 1 - OwnResult(j)
       /\ log[j].inv = 2 => log[j].r = OwnResult(j)
  /\ tree \in {Invert(Run), Invert(Invert(Run))} => ~HasInvertWrite

----------------------------------------------------------------------------
(* Properties of Function.export_commands and Function.define_state *)

\* C16: during the export no function in state FLATTEN is reached with a
\* non-empty inherited prefix: `assert not subcommand` never fails
C16_FlattenNeverPrefixed == error # "AssertionError:flatten"

\* the pairs <<g, P>> the export reaches from the pairs in S by one call:
\* EXPORT and FLATTEN callers pass the prefix of the call site, a SINGLE
\* caller passes its inherited prefix followed by that of its call
ReachedStep(S) ==
  S \cup {<<commands[c[1][1]][c[2]].holder,
            IF callstate[c[1][1]] = "SINGLE"
            THEN c[1][2] \o commands[c[1][1]][c[2]].subcommands
            ELSE commands[c[1][1]][c[2]].subcommands>> : c \in
     {c \in S \X (1..MaxOps) :
        /\ c[2] \in DOMAIN commands[c[1][1]]
        /\ callstate[c[1][1]] \in {"EXPORT", "FLATTEN", "SINGLE"}
        /\ Len(c[1][2]) < MaxOps
        /\ IsCall(commands[c[1][1]][c[2]])}}

\* every <<g, P>> such that Datapack.export reaches g with the inherited
\* prefix P, starting from the functions in state EXPORT
RECURSIVE ReachedFrom(_, _)
ReachedFrom(S, n) == IF n = 0 THEN S ELSE ReachedFrom(ReachedStep(S), n - 1)

Reached == ReachedFrom({<<f, <<>>>> : f \in {x \in Funcs : callstate[x] = "EXPORT"}},
                       MaxOps)

InheritedPrefixes(g) == {r[2] : r \in {x \in Reached : x[1] = g}}

\* the one command a SINGLE function g folds to under the prefix P: its own
\* command with P in front, a chain of SINGLE callees folded the same way
RECURSIVE Folded(_, _, _)
Folded(g, P, depth) ==
  LET cmd == commands[g][1] IN
  IF ~IsCall(cmd) THEN Line("say", P \o cmd.subcommands)
  ELSE IF callstate[cmd.holder] = "SINGLE" /\ depth < MaxOps
       THEN Folded(cmd.holder, P \o cmd.subcommands, depth + 1)
       ELSE Line(cmd.holder, P \o cmd.subcommands)

\* the export of the SINGLE function g alone, reached with the prefix P
ExportSingle(g, P) ==
  export_commands(g, P, [commands |-> <<>>, cmds |-> commands,
                         written |-> written, files |-> files,
                         err |-> "none"], 1)

\* C17: once the functions are classified, exporting a SINGLE function with
\* a non-empty inherited prefix P emits exactly one command, the function's
\* one command with P in front of its own prefix, and the prefix list the
\* command holds is the same after the export
C17_SingleFoldsPrefix ==
  pc = "tags" =>
    \A g \in Funcs : \A P \in InheritedPrefixes(g) :
      (callstate[g] = "SINGLE" /\ P # <<>>) =>
        LET out == ExportSingle(g, P) IN
          /\ out.commands = <<Folded(g, P, 1)>>
          /\ out.cmds = commands

\* f is transitively empty: every command of f is a call to a function
\* that is transitively empty within n - 1 further calls
RECURSIVE EmptyWithin(_, _)
EmptyWithin(f, n) ==
  /\ n > 0
  /\ \A i \in DOMAIN commands[f] :
       IsCall(commands[f][i]) /\ EmptyWithin(commands[f][i].holder, n - 1)

\* some call site targeting g carries a prefix
HasPrefixedCallSite(g) ==
  \E f \in Funcs : \E i \in DOMAIN commands[f] :
    /\ IsCall(commands[f][i])
    /\ commands[f][i].holder = g
    /\ commands[f][i].subcommands # <<>>

\* the state of the first rule of define_state that matches f
FirstRule(f) ==
  CASE hasname[f] -> "EXPORT"
    [] ~hasname[f] /\ EmptyWithin(f, Len(FuncList)) -> "NEEDLESS"
    [] ~hasname[f] /\ ~EmptyWithin(f, Len(FuncList))
         /\ (scheduled[f] \/ tagged[f]) -> "EXPORT"
    [] OTHER -> IF ~HasPrefixedCallSite(f) THEN "FLATTEN"
                ELSE IF Len(commands[f]) = 1 THEN "SINGLE"
                ELSE "EXPORT"

\* the pass over Function.functions that calls define_state has ended,
\* normally or by raising
DefineStateEnded ==
  \/ pc = "defined"
  \/ pc = "failed" /\ error = "RecursionError:define_state"

\* C18: when define_state has been called for the functions, every function
\* holds the state of the first matching rule in the order explicit path,
\* transitively empty, scheduled or tagged, no prefixed call site, exactly
\* one command, otherwise EXPORT
C18_FirstRuleWins ==
  DefineStateEnded => \A f \in Funcs : callstate[f] = FirstRule(f)

\* define_state has assigned f a state
Classified(f) == callstate[f] \in {"NEEDLESS", "FLATTEN", "SINGLE", "EXPORT"}

\* every command of f is a call to a function whose state is NEEDLESS; this
\* is the case of every function with zero commands
CallsOnlyNeedless(f) ==
  \A i \in DOMAIN commands[f] :
    IsCall(commands[f][i]) /\ callstate[commands[f][i].holder] = "NEEDLESS"

\* C19: define_state classifies as NEEDLESS every function with zero
\* commands and every function all of whose commands are calls to functions
\* classified NEEDLESS
C19_NeedlessTransitive ==
  DefineStateEnded =>
    \A f \in Funcs :
      (Classified(f) /\ CallsOnlyNeedless(f)) => callstate[f] = "NEEDLESS"

\* C19 as amended: define_state classifies as NEEDLESS every function
\* without an explicit path that has zero commands, and every function
\* without an explicit path all of whose commands are calls to functions
\* classified NEEDLESS
C19_NeedlessTransitiveUnnamed ==
  DefineStateEnded =>
    \A f \in Funcs :
      (Classified(f) /\ ~hasname[f] /\ CallsOnlyNeedless(f))
        => callstate[f] = "NEEDLESS"

\* a scheduled function without a path that holds one call to a NEEDLESS
\* function with zero commands, classified NEEDLESS itself
C19_Witness ==
  /\ pc = "defined"
  /\ \E f \in Funcs :
       /\ ~hasname[f] /\ scheduled[f]
       /\ Len(commands[f]) = 1
       /\ CallsOnlyNeedless(f)
       /\ commands[commands[f][1].holder] = <<>>
       /\ callstate[f] = "NEEDLESS"

\* some command of f is a call to g
Calls(f, g) ==
  \E i \in DOMAIN commands[f] :
    IsCall(commands[f][i]) /\ commands[f][i].holder = g

\* f has no explicit path, no schedule and no tag
Unanchored(f) == ~hasname[f] /\ ~scheduled[f] /\ ~tagged[f]

\* C20: after classification and cycle breaking, two functions that call
\* each other, neither with an explicit path, a schedule or a tag, both
\* have callstate EXPORT
C20_MutualBothExport ==
  pc = "checked" =>
    \A f, g \in Funcs :
      (f # g /\ Calls(f, g) /\ Calls(g, f) /\ Unanchored(f) /\ Unanchored(g))
        => (callstate[f] = "EXPORT" /\ callstate[g] = "EXPORT")

----------------------------------------------------------------------------
(***************************************************************************)
(* Part III: datapack.py, commands and prefix chains as Python objects.    *)
(* A heap h = [lists, objs, afuncs]: an object names its subcommands list  *)
(* by the index of the list, so that two objects can hold the same list.   *)
(***************************************************************************)

\* ISubCommandSegment: its text, its accessor (0 for None) and, for an
\* IStoreSubCommandSegment, "result" or "success" ("none" for the others)
Segment(name, accessor, store) ==
  [name |-> name, accessor |-> accessor, store |-> store]

PlainSegments == {Segment("as", 0, "none"), Segment("at", 0, "none")}

RECURSIVE SeqsUpTo(_, _)
SeqsUpTo(S, n) ==
  IF n = 0 THEN {<<>>}
  ELSE LET shorter == SeqsUpTo(S, n - 1) IN
       shorter \cup {Append(q, x) : q \in shorter, x \in S}

\* the prefix chains the operands start with
Chains == SeqsUpTo(PlainSegments, MaxChain)

\* the classes __add__ tells apart: SubCommand, ConditionSubCommand,
\* Command.Function.Function ("Function") and every other ICommand
ChainKinds == {"SubCommand", "ConditionSubCommand"}
Kinds == ChainKinds \cup {"Function", "Command"}

\* an object: its class, its subcommands list, what it runs, its accessor
\* (0 for None) and, for a call of a synthesized Function, that Function
Obj(kind, subs, payload, accessor) ==
  [kind |-> kind, subs |-> subs, payload |-> payload, accessor |-> accessor,
   holder |-> 0]

PayloadOf(kind) ==
  CASE kind = "Function" -> "function f"
    [] kind = "Command" -> "say"
    [] OTHER -> ""

Heap == [lists |-> lists, objs |-> objs, afuncs |-> afuncs]

\* list.extend: list a grows by the content list b has at the call
extend(h, a, b) == [h EXCEPT !.lists[a] = @ \o h.lists[b]]

\* SubCommand.__add__(self, other) on the heap h; the result is the last
\* object of the heap returned.  The first three branches build a new object
\* with a list of its own, the last one starts from copy(other), which
\* holds the list other holds
__add__(h, self, other) ==
  LET o == h.objs[other] IN
  IF o.kind \in {"ConditionSubCommand", "SubCommand", "Function"}
  THEN LET n == Len(h.lists) + 1
           h1 == [h EXCEPT !.lists = Append(@, <<>>),
                           !.objs = Append(@, [o EXCEPT !.subs = n, !.accessor = 0])]
       IN extend(extend(h1, n, h.objs[self].subs), n, o.subs)
  ELSE LET h1 == [h EXCEPT !.objs = Append(@, o)]
       IN extend(extend(h1, o.subs, h.objs[self].subs), o.subs, o.subs)

\* the subcommands of object x in heap h
SubsOf(h, x) == h.lists[h.objs[x].subs]

\* p + x is evaluated: the program holds the result as a new object
Add(p, x) ==
  /\ objs # <<>>
  /\ Len(objs) < MaxObjs
  /\ objs[p].kind \in ChainKinds
  /\ LET h == __add__(Heap, p, x)
         r == Len(h.objs)
     IN /\ Len(SubsOf(h, r)) <= MaxSegs
        /\ lists' = h.lists
        /\ objs' = h.objs
        /\ afuncs' = h.afuncs
        /\ last' = [self |-> p, other |-> x, result |-> r,
                    P |-> SubsOf(Heap, p), Q |-> SubsOf(Heap, x),
                    x |-> objs[x]]
  /\ UNCHANGED <<gvars, rvars>>

\* two prefix chains P and Q and an operand x of any class with a prefix
\* list of its own, each object with its own list
InitAlg ==
  /\ GraphInit
  /\ RtIdle
  /\ \E P, Q, X \in Chains : \E k \in Kinds :
       /\ lists = <<P, Q, X>>
       /\ objs = <<Obj("SubCommand", 1, "", 0), Obj("SubCommand", 2, "", 0),
                   Obj(k, 3, PayloadOf(k), 0)>>
  /\ afuncs = <<>>
  /\ last = <<>>

NextAlg == \E p, x \in DOMAIN objs : Add(p, x)

SpecAlg == InitAlg /\ [][NextAlg]_vars

\* C21: when P + c has been evaluated for a prefix chain P and a command c
\* that is not a function call and holds the prefix list Q, the result runs
\* what c runs and its prefix list is P followed by Q
C21_AddPrepends ==
  (last # <<>> /\ last.x.kind = "Command") =>
     /\ objs[last.result].payload = last.x.payload
     /\ SubsOf(Heap, last.result) = last.P \o last.Q

\* the prefix list of (P + Q) + x, evaluated on the heap h
LeftAssoc(h, P, Q, x) ==
  LET h1 == __add__(h, P, Q)
      h2 == __add__(h1, Len(h1.objs), x)
  IN SubsOf(h2, Len(h2.objs))

\* the prefix list of P + (Q + x), evaluated on the heap h
RightAssoc(h, P, Q, x) ==
  LET h1 == __add__(h, Q, x)
      h2 == __add__(h1, P, Len(h1.objs))
  IN SubsOf(h2, Len(h2.objs))

\* C22: for prefix chains P and Q and every x that is a prefix chain, a
\* command or a function call, (P + Q) + x and P + (Q + x) have equal
\* prefix lists
C22_AddAssociative ==
  \A P, Q, x \in DOMAIN objs :
    (objs[P].kind \in ChainKinds /\ objs[Q].kind \in ChainKinds)
      => LeftAssoc(Heap, P, Q, x) = RightAssoc(Heap, P, Q, x)

----------------------------------------------------------------------------
(* ICommand.flatten_accessor.  The operators take the heap h and return the *)
(* new heap; an operator that creates an object returns it as the last      *)
(* object, flatten_accessor and its loop return it in the field ret.        *)

\* longest prefix list of a command that is flattened
MaxFlatChain == 3

\* the segments with an accessor, and the store segments
AccessorSegments == {Segment("as", 1, "none"), Segment("at", 2, "none")}
StoreSegments == {Segment("store", 0, "result"), Segment("store", 1, "success")}

\* the accessor a command holds itself
CommandAccessor == 3

SetupPayload(a) == <<"setup1", "setup2", "setup3">>[a]

\* ICommand.__init__ of a command with an empty prefix list
hCommand(h, payload) ==
  [h EXCEPT !.lists = Append(@, <<>>),
            !.objs = Append(@, Obj("Command", Len(h.lists) + 1, payload, 0))]

\* SubCommand(content), ConditionSubCommand(content)
hChain(h, kind, content) ==
  [h EXCEPT !.lists = Append(@, <<content>>),
            !.objs = Append(@, Obj(kind, Len(h.lists) + 1, "", 0))]

\* Function(); origin tells an accessor's Function from the one made for a
\* store segment
hFunction(h, origin) ==
  [h EXCEPT !.afuncs = Append(@, [origin |-> origin, commands |-> <<>>])]

\* Function.__iadd__
hAppend(h, f, c) == [h EXCEPT !.afuncs[f].commands = Append(@, c)]

\* Function.Call
hCall(h, f) ==
  [h EXCEPT !.lists = Append(@, <<>>),
            !.objs = Append(@, [Obj("Function", Len(h.lists) + 1, "function", 0)
                                 EXCEPT !.holder = f])]

\* OhMyDat._accessor(cmd), for the accessor a: a Function that runs the
\* setup and then cmd, and the call of it
accessor(h, a, cmd) ==
  Bind(hCommand(hFunction(h, "accessor"), SetupPayload(a)),
       LAMBDA h1 : hCall(hAppend(hAppend(h1, Len(h1.afuncs), Len(h1.objs)),
                                 Len(h1.afuncs), cmd),
                         Len(h1.afuncs)))

\* sub.store_nbt.getValue() for a result segment, isExists() for a success
\* segment
StoreRead(h, sub) ==
  IF sub.store = "result" THEN hCommand(h, "get")
  ELSE hChain(h, "ConditionSubCommand", Segment("if data", 0, "none"))

\* the body of the loop for an IStoreSubCommandSegment; store_count is the
\* count before it is decremented
flatten_store(h, sub, head, store_count) ==
  Bind(hFunction(h, "store"), LAMBDA h1 :
  Bind(IF store_count = 1
       THEN Bind(hCommand(h1, "remove"),
                 LAMBDA g : hAppend(g, Len(h1.afuncs), Len(g.objs)))
       ELSE h1, LAMBDA h2 :
  Bind(hChain(hAppend(h2, Len(h1.afuncs), head), "SubCommand", sub), LAMBDA h3 :
  Bind(StoreRead(h3, sub), LAMBDA h4 :
  Bind(__add__(h4, Len(h3.objs), Len(h4.objs)), LAMBDA h5 :
  Bind(IF sub.accessor = 0 THEN h5 ELSE accessor(h5, sub.accessor, Len(h5.objs)),
       LAMBDA h6 : hCall(hAppend(h6, Len(h1.afuncs), Len(h6.objs)),
                         Len(h1.afuncs))))))))

\* the body of the loop for the other segments: SubCommand(sub) + head,
\* handed to the accessor of sub if it has one
flatten_plain(h, sub, head) ==
  Bind(hChain(h, "SubCommand", sub), LAMBDA h1 :
  Bind(__add__(h1, Len(h1.objs), head), LAMBDA h2 :
       IF sub.accessor = 0 THEN h2 ELSE accessor(h2, sub.accessor, Len(h2.objs))))

\* for sub in reversed(self.subcommands): the iteration starts at the end
\* the list has when the loop begins, and reads index i when it comes to it
RECURSIVE flatten_loop(_, _, _, _, _)
flatten_loop(h, lid, i, head, store_count) ==
  IF i = 0 THEN [lists |-> h.lists, objs |-> h.objs, afuncs |-> h.afuncs,
                 ret |-> head]
  ELSE LET sub == h.lists[lid][i] IN
       Bind(IF sub.store # "none" THEN flatten_store(h, sub, head, store_count)
            ELSE flatten_plain(h, sub, head),
            LAMBDA h1 : flatten_loop(h1, lid, i - 1, Len(h1.objs),
                          IF sub.store # "none" THEN store_count - 1
                          ELSE store_count))

\* ICommand._copy_without_accessor: copy(self) holds the list self holds
_copy_without_accessor(h, c) ==
  [h EXCEPT !.objs = Append(@, [h.objs[c] EXCEPT !.accessor = 0])]

\* the head before the loop: the copy, with a store segment in front if the
\* prefix list has store segments, handed to the command's own accessor
flatten_head(h, c, store_count) ==
  Bind(_copy_without_accessor(h, c), LAMBDA h1 :
  Bind(IF store_count = 0 THEN h1
       ELSE Bind(hChain(h1, "SubCommand", Segment("store", 0, "result")),
                 LAMBDA g : __add__(g, Len(g.objs), Len(h1.objs))),
       LAMBDA h2 :
       IF h.objs[c].accessor = 0 THEN h2
       ELSE accessor(h2, h.objs[c].accessor, Len(h2.objs))))

\* ICommand.flatten_accessor of the command c
flatten_accessor(h, c) ==
  LET subs == SubsOf(h, c)
      store_count == Cardinality({i \in DOMAIN subs : subs[i].store # "none"})
  IN IF h.objs[c].accessor = 0 /\ \A i \in DOMAIN subs : subs[i].accessor = 0
     THEN [lists |-> h.lists, objs |-> h.objs, afuncs |-> h.afuncs, ret |-> c]
     ELSE Bind(flatten_head(h, c, store_count),
               LAMBDA h1 : flatten_loop(h1, h.objs[c].subs,
                                        Len(h1.lists[h.objs[c].subs]),
                                        Len(h1.objs), store_count))

\* c.flatten_accessor() is evaluated
Flatten(c) ==
  /\ last = <<>>
  /\ objs[c].kind = "Command"
  /\ LET h == flatten_accessor(Heap, c) IN
       /\ lists' = h.lists
       /\ objs' = h.objs
       /\ afuncs' = h.afuncs
       /\ last' = [self |-> c, result |-> h.ret, P |-> SubsOf(Heap, c),
                   x |-> objs[c]]
  /\ UNCHANGED <<gvars, rvars>>

\* one command, with or without an accessor of its own, whose prefix list
\* is made of plain, accessor-bearing and store segments
InitFlat ==
  /\ GraphInit
  /\ RtIdle
  /\ \E P \in SeqsUpTo(PlainSegments \cup AccessorSegments \cup StoreSegments,
                       MaxFlatChain) :
       \E a \in {0, CommandAccessor} :
         /\ lists = <<P>>
         /\ objs = <<Obj("Command", 1, "say", a)>>
  /\ afuncs = <<>>
  /\ last = <<>>

NextFlat == \E c \in DOMAIN objs : Flatten(c)

SpecFlat == InitFlat /\ [][NextFlat]_vars

----------------------------------------------------------------------------
(* Properties of ICommand.flatten_accessor, read off the fragment it       *)
(* returns: the path from the returned command to the command that runs    *)
(* the original payload.                                                   *)

\* running c runs the original payload within d nested calls
RECURSIVE Leads(_, _)
Leads(c, d) ==
  IF objs[c].kind = "Function"
  THEN /\ d > 0
       /\ objs[c].holder # 0
       /\ \E i \in DOMAIN afuncs[objs[c].holder].commands :
            Leads(afuncs[objs[c].holder].commands[i], d - 1)
  ELSE objs[c].payload = "say"

\* the position, among the commands of Function f, of the first command
\* that leads to the payload
PathIndex(f, d) ==
  CHOOSE i \in DOMAIN afuncs[f].commands :
    /\ Leads(afuncs[f].commands[i], d)
    /\ \A j \in 1..(i - 1) : ~Leads(afuncs[f].commands[j], d)

IsSetup(c) == objs[c].payload \in {"setup1", "setup2", "setup3"}

PayloadAt(c) == objs[c].payload

RECURSIVE MapPayload(_)
MapPayload(q) ==
  IF q = <<>> THEN <<>> ELSE <<PayloadAt(Head(q))>> \o MapPayload(Tail(q))

\* the setups that run, in order, from the start of c until the payload runs
RECURSIVE SetupsBefore(_, _)
SetupsBefore(c, d) ==
  IF objs[c].kind = "Function" /\ d > 0 /\ Leads(c, d)
  THEN LET f == objs[c].holder
           k == PathIndex(f, d - 1)
       IN MapPayload(SelectSeq(SubSeq(afuncs[f].commands, 1, k - 1), IsSetup))
            \o SetupsBefore(afuncs[f].commands[k], d - 1)
  ELSE <<>>

\* the segments in front of the payload on the path from c, outermost first
RECURSIVE PathPrefix(_, _)
PathPrefix(c, d) ==
  IF objs[c].kind = "Function" /\ d > 0 /\ Leads(c, d)
  THEN lists[objs[c].subs]
         \o PathPrefix(afuncs[objs[c].holder].commands[PathIndex(objs[c].holder, d - 1)],
                       d - 1)
  ELSE lists[objs[c].subs]

HasAccessor(seg) == seg.accessor # 0
NotStore(seg) == seg.store = "none"

RECURSIVE MapSetup(_)
MapSetup(q) ==
  IF q = <<>> THEN <<>>
  ELSE <<SetupPayload(Head(q).accessor)>> \o MapSetup(Tail(q))

IsAccessorFunction(f) == f.origin = "accessor"

\* C23: when a command without an accessor of its own whose prefix list
\* has two accessor-bearing segments has been flattened, two setup
\* Functions were synthesized, and from the returned command the setup of
\* the outer segment runs once, then the setup of the inner segment once,
\* and then the payload
C23_TwoNestedSetups ==
  (/\ last # <<>>
   /\ last.x.accessor = 0
   /\ Len(SelectSeq(last.P, HasAccessor)) = 2
   /\ \A i \in DOMAIN last.P : HasAccessor(last.P[i]) => NotStore(last.P[i]))
  => /\ Len(SelectSeq(afuncs, IsAccessorFunction)) = 2
     /\ Leads(last.result, Len(afuncs))
     /\ SetupsBefore(last.result, Len(afuncs))
          = MapSetup(SelectSeq(last.P, HasAccessor))

\* C24: when a command that holds an accessor and a non-empty prefix list P
\* has been flattened, the returned command leads to the payload, the
\* accessor's setup runs once before it, and the segments in front of the
\* payload on the path are those of P, each once (store segments, which
\* become Functions, left aside)
C24_FlattenEquivalent ==
  (/\ last # <<>>
   /\ last.x.accessor # 0
   /\ last.P # <<>>)
  => /\ Leads(last.result, Len(afuncs))
     /\ Len(SelectSeq(SetupsBefore(last.result, Len(afuncs)),
                      LAMBDA p : p = SetupPayload(last.x.accessor))) = 1
     /\ SelectSeq(PathPrefix(last.result, Len(afuncs)), NotStore)
          = SelectSeq(last.P, NotStore)

----------------------------------------------------------------------------
(* The allocator specification: the entity backend over the sequencing     *)
(* composites, alone and nested in one another.                             *)

Sequencers == {"Traverse", "All", "Any"}

SeqKids == {Run, WaitUntil, Wait(1), Wait(MaxTick), Infinit(Wait(MaxTick))}
SeqLevel1 ==
  {Ev(K, 0, subs) : K \in Sequencers,
                    subs \in UNION {[1..k -> SeqKids] : k \in 1..MaxChildren}}
SeqPairs == {Ev(K, 0, <<a, b>>) : K \in Sequencers, a, b \in {Run, Wait(MaxTick)}}
SeqTrees ==
  SeqLevel1
    \cup {Ev(K, 0, <<x, l>>) : K \in Sequencers, x \in SeqPairs, l \in {Run, Wait(MaxTick)}}
    \cup {Ev(K, 0, <<l, x>>) : K \in Sequencers, x \in SeqPairs, l \in {Run, Wait(MaxTick)}}

InitSeq ==
  /\ GraphInit
  /\ AlgIdle
  /\ tree \in SeqTrees
  /\ backend = "entity"
  /\ prog = export_entity(tree)
  /\ flags = {}
  /\ tags = {}
  /\ data = {}
  /\ scores = {}
  /\ result = -1
  /\ sched = <<>>
  /\ cond = FALSE
  /\ log = <<>>

SpecSeq == InitSeq /\ [][NextRt]_vars

\* the largest number of counters of e that are live at the same time: a Wait
\* of more than one tick counts down one, the children of a sequencing
\* composite run one after the other
RECURSIVE Live(_)
Max(S) == IF S = {} THEN 0 ELSE CHOOSE m \in S : \A n \in S : n <= m
Live(e) ==
  CASE e.kind = "Wait" -> IF e.n = 1 THEN 0 ELSE 1
    [] e.kind \in Sequencers \cup Wrappers -> Max({Live(e.subs[i]) : i \in DOMAIN e.subs})
    [] OTHER -> 0

\* C25: in the tag-based mode the objectives allocated for a tree of
\* sequencing composites are at most the counters live at the same time,
\* whatever the number of children: sequential children that each need one
\* counter share one objective
C25_SequencersShareCounters ==
  (prog # <<>> /\ prog.err = "none") => prog.objs <= Live(tree)

\* three sequential waits, compiled and started, with one objective
C25_Witness ==
  /\ prog # <<>>
  /\ \E K \in Sequencers :
       tree = Ev(K, 0, <<Ev(K, 0, <<Wait(MaxTick), Wait(MaxTick)>>), Wait(MaxTick)>>)
  /\ prog.objs = 1
  /\ log # <<>>


----------------------------------------------------------------------------
(* Abort, applied to the states the runtime reaches.                        *)

\* the root is not active: it was never entered, its exit has run, or the
\* last thing that happened to it is an abort
Inactive == log = <<>> \/ Exited(prog.root) \/ Aborted

\* the markers, the schedule and the stored data of a state
Stored(st) ==
  [flags |-> st.flags, tags |-> st.tags, data |-> st.data, scores |-> st.scores,
   sched |-> st.sched]

\* `function <path>abort`, whether the event is active or not
AbortAnytime(st) == Call(prog, prog.abort, st)

\* C26: running a node's abort twice in a row has the effect of running it
\* once, and running it while the node is not active (before entry, after its
\* exit, after an abort) changes no marker, schedule or stored data
C26_AbortIdempotent ==
  (prog # <<>> /\ prog.err = "none") =>
    \A o \in Outcomes :
      LET once == AbortAnytime(St(o)) IN
        once.err = "none" =>
          /\ Stored(AbortAnytime(once)) = Stored(once)
          /\ Inactive => Stored(once) = Stored(St(o))


----------------------------------------------------------------------------
(* The parallel specification: ParallelAny and ParallelAll on the server    *)
(* backend, alone, under an All that reads their result, and after a Run.   *)

ParKids == {Run, Wait(1), Wait(MaxTick), Infinit(Run)}
ParLevel1 ==
  {Ev(K, 0, subs) : K \in {"ParallelAny", "ParallelAll"},
                    subs \in UNION {[1..k -> ParKids] : k \in 1..MaxChildren}}
ParTrees ==
  ParLevel1 \cup {All(<<x, Run>>) : x \in ParLevel1}
            \cup {Traverse(<<Run, x>>) : x \in ParLevel1}

InitPar ==
  /\ GraphInit
  /\ AlgIdle
  /\ tree \in ParTrees
  /\ backend = "server"
  /\ prog = export_server(tree)
  /\ flags = {}
  /\ tags = {}
  /\ data = {}
  /\ scores = {}
  /\ result = -1
  /\ sched = <<>>
  /\ cond = FALSE
  /\ log = <<>>

NextPar == Start \/ Abort \/ Tick \/ ToggleCond

SpecPar == InitPar /\ [][NextPar]_vars

Parallels == NodesOf("ParallelAny") \cup NodesOf("ParallelAll")
\* the child result that ends the race: success for ParallelAny, failure for
\* ParallelAll
Decisive(p) == IF prog.nodes[p].kind = "ParallelAny" THEN 1 ELSE 0

\* C27: ParallelAny and ParallelAll compile, and in every activation: once a
\* child has exited with the decisive result (success for ParallelAny,
\* failure for ParallelAll) no child is active or started any more; the exit
\* runs at most once; and the exit's result is the decisive one if a child
\* exited with it and the opposite one if all non-infinite children exited
\* otherwise
C27_ParallelDuals ==
  /\ prog # <<>> => prog.err = "none"
  /\ \A p \in Parallels :
       /\ Exited(p) => \A c \in Children(p) : c \notin flags /\ ~Pending(c)
       /\ \A i, j \in DOMAIN log : \A c \in Children(p) :
            i < j /\ IsExit(i, p) /\ IsEnter(j, c) => ~SameActivation(p, i, j)
       /\ \A i, j \in DOMAIN log :
            i < j /\ IsExit(i, p) /\ IsExit(j, p) => ~SameActivation(p, i, j)
       /\ \A j \in DOMAIN log : IsExit(j, p) /\ ~prog.nodes[p].resultless =>
            log[j].r = IF \E i \in 1..(j - 1) : \E c \in Children(p) :
                             /\ IsExit(i, c)
                             /\ log[i].r = Decisive(p)
                             /\ SameActivation(p, i, j)
                       THEN Decisive(p) ELSE 1 - Decisive(p)


----------------------------------------------------------------------------
(* The trigger specification: event trees with WaitFunctionCall, and the    *)
(* world running the trigger function at any time.                          *)

CallTrees ==
  LET W == WaitFunctionCall IN
  {W, Invert(W), Traverse(<<W, Run>>), Traverse(<<Run, W>>), Traverse(<<W, W>>),
   Traverse(<<W, Wait(MaxTick)>>), All(<<W, Run>>), Any(<<W, Run>>),
   ParallelTraverse(<<W, Wait(1)>>), ParallelFirst(<<W, Wait(MaxTick)>>),
   ParallelFirst(<<Run, W>>),
   Traverse(<<ParallelFirst(<<Run, W>>), Wait(MaxTick)>>)}

\* the classes whose entity backend is modelled in the trigger specification
RECURSIVE EntityModelledCall(_)
EntityModelledCall(e) ==
  /\ e.kind \in {"Run", "Wait", "WaitFunctionCall", "Traverse", "All", "Any", "Invert"}
  /\ \A i \in DOMAIN e.subs : EntityModelledCall(e.subs[i])

\* `function <trigger>`: something in the world runs the trigger function
RunTrigger ==
  /\ prog # <<>>
  /\ prog.trigger # 0
  /\ Len(log) < MaxLog
  /\ \E o \in Outcomes :
       \E st \in {Call(prog, prog.trigger,
                       [St(o) EXCEPT !.self = FALSE,
                                     !.log = Append(@, LogRec("trigger", 0, result, -1))])} :
         Commit(st)

InitCall ==
  /\ GraphInit
  /\ AlgIdle
  /\ tree \in CallTrees
  /\ backend \in {"server", "entity"}
  /\ backend = "entity" => EntityModelledCall(tree)
  /\ prog = IF backend = "server" THEN export_server(tree) ELSE export_entity(tree)
  /\ flags = {}
  /\ tags = {}
  /\ data = {}
  /\ scores = {}
  /\ result = -1
  /\ sched = <<>>
  /\ cond = FALSE
  /\ log = <<>>

NextCall == Start \/ Abort \/ Tick \/ EntityTick \/ ToggleCond \/ RunTrigger

SpecCall == InitCall /\ [][NextCall]_vars

IsTrigger(i) == log[i].k = "trigger"
\* node w is active at position i of the log: it was entered, and since then
\* it has not exited and the event was not aborted
ActiveAt(w, i) ==
  \E k \in 1..(i - 1) :
    IsEnter(k, w) /\ \A l \in (k + 1)..(i - 1) : ~IsExit(l, w) /\ log[l].k # "abort"
\* position j of the log is written by the run of the trigger at position i
During(i, j) == i < j /\ \A l \in (i + 1)..j : log[l].k \in {"enter", "exit", "poll"}

\* C28: a run of the trigger function while a WaitFunctionCall is active runs
\* its exit, and a run while it is not active (before entry, after its exit,
\* after abort) does not, unless that run itself enters the node first
C28_TriggerRunsExit ==
  \A w \in NodesOf("WaitFunctionCall") : \A i \in DOMAIN log : IsTrigger(i) =>
    /\ ActiveAt(w, i) => \E j \in DOMAIN log : During(i, j) /\ IsExit(j, w)
    /\ ~ActiveAt(w, i) =>
         \A j \in DOMAIN log : During(i, j) /\ IsExit(j, w) =>
           \E k \in (i + 1)..(j - 1) : IsEnter(k, w)


----------------------------------------------------------------------------
(* The result specification: All and Any over Runs whose final command      *)
(* returns one or two when it succeeds.                                     *)

MaxReturn == 2

ResultKids == {RunReturning(r) : r \in 1..MaxReturn} \cup {Wait(1), WaitUntil}
ResultTrees ==
  {Ev(K, 0, <<a, b>>) : K \in {"All", "Any"}, a, b \in ResultKids}

InitResult ==
  /\ GraphInit
  /\ AlgIdle
  /\ tree \in ResultTrees
  /\ backend \in {"server", "entity"}
  /\ backend = "entity" => EntityModelledCall(tree)
  /\ prog = IF backend = "server" THEN export_server(tree) ELSE export_entity(tree)
  /\ flags = {}
  /\ tags = {}
  /\ data = {}
  /\ scores = {}
  /\ result = -1
  /\ sched = <<>>
  /\ cond = FALSE
  /\ log = <<>>

SpecResult == InitResult /\ [][NextRt]_vars

\* C29: when a Run compiled with resultless = false has run, the result cell
\* holds 1 if its final command succeeded and 0 if it failed, and the cell
\* holds nothing but 0 or 1 once it has been written
C29_RunStoresSuccess ==
  /\ \A j \in DOMAIN log : \A i \in NodesOf("Run") :
       IsExit(j, i) /\ ~prog.nodes[i].resultless => log[j].own = log[j].o
  /\ result \in {-1, 0, 1}


----------------------------------------------------------------------------
(* The function tag's file                                                  *)

\* the positions of the tag's list that hold a function classified EXPORT
ExportedAt == {i \in DOMAIN tagfunctions : callstate[tagfunctions[i]] = "EXPORT"}

\* C30: the values written for the function tag are, in insertion order,
\* exactly the tagged Functions whose callstate is EXPORT when the tag is
\* exported; a tagged Function classified NEEDLESS is left out
C30_TagValuesExported ==
  pc = "tags" =>
    /\ Len(tagvalues) = Cardinality(ExportedAt)
    /\ \A i \in ExportedAt :
         tagvalues[Cardinality({j \in ExportedAt : j <= i})] = tagfunctions[i]
    /\ \A k \in DOMAIN tagvalues : callstate[tagvalues[k]] # "NEEDLESS"

\* the tag holds a NEEDLESS function before an EXPORT one, and its file has
\* been written with the second alone
C30_Witness ==
  /\ pc = "tags"
  /\ \E i, j \in DOMAIN tagfunctions :
       /\ i < j
       /\ callstate[tagfunctions[i]] = "NEEDLESS"
       /\ callstate[tagfunctions[j]] = "EXPORT"
  /\ tagvalues # <<>>
  /\ Len(tagvalues) < Len(tagfunctions)

----------------------------------------------------------------------------
(* Serialization of the function files *)

\* C31: during one Datapack.export run the file of each EXPORT function is
\* serialized at most once: export_function is called for it at most once,
\* however many call sites reach that function.
C31_SerializedOnce == \A f \in Funcs : written[f] <= 1

----------------------------------------------------------------------------
(* The operators of IEvent: e1 + e2, e1 & e2, e1 | e2.  Events are objects  *)
(* of the heap; a composite names its subs list by the index of the list    *)
(* and the list holds the indices of the children.                          *)

\* the composite each operator builds
OperatorKinds == {"Traverse", "ParallelTraverse", "ParallelFirst"}

\* an event object; subs is 0 for an event that is not an IComposit
EventObj(kind, subs) == [kind |-> kind, subs |-> subs]

\* the child list of event x in heap h
EventSubs(h, x) == h.lists[h.objs[x].subs]

\* IComposit.__init__(self, *subs): self.subs = [*subs], a list of its own
IComposit__init__(h, kind, subs) ==
  [h EXCEPT !.lists = Append(@, subs),
            !.objs = Append(@, EventObj(kind, Len(h.lists) + 1))]

\* subs[:1] = src on the list object l
SetHead(h, l, src) ==
  [h EXCEPT !.lists[l] = h.lists[src] \o SubSeq(@, 2, Len(@))]

\* subs[-1:] = src on the list object l
SetLast(h, l, src) ==
  [h EXCEPT !.lists[l] = SubSeq(@, 1, Len(@) - 1) \o h.lists[src]]

\* the operator written with the list of self as its working list:
\* subs = self.subs; subs.append(other)
operator_in_place(h, kind, self, other) ==
  IF h.objs[self].kind = kind
  THEN LET l == h.objs[self].subs
           h1 == [h EXCEPT !.lists[l] = Append(@, other)]
           h2 == IF h.objs[other].kind = kind
                 THEN SetLast(h1, l, h.objs[other].subs) ELSE h1
       IN [h2 EXCEPT !.objs = Append(@, EventObj(kind, l))]
  ELSE LET l == Len(h.lists) + 1
           h1 == [h EXCEPT !.lists = Append(@, <<self, other>>)]
           h2 == IF h.objs[other].kind = kind
                 THEN SetLast(h1, l, h.objs[other].subs) ELSE h1
       IN IComposit__init__(h2, kind, h2.lists[l])

\* IEvent.__add__, __and__ and __or__ on the heap h, kind being the class
\* the operator tests for and builds; the result is the last object of the
\* heap returned
operator(h, kind, self, other) ==
  LET l == Len(h.lists) + 1
      h1 == [h EXCEPT !.lists = Append(@, <<self, other>>)]
      h2 == IF h.objs[self].kind = kind
            THEN SetHead(h1, l, h.objs[self].subs) ELSE h1
      h3 == IF h.objs[other].kind = kind
            THEN SetLast(h2, l, h.objs[other].subs) ELSE h2
  IN IComposit__init__(h3, kind, h3.lists[l])

\* a op b is evaluated: the program holds the result as a new object
Combine(kind, a, b) ==
  /\ Len(objs) < MaxObjs
  /\ LET h == operator(Heap, kind, a, b) IN
       /\ lists' = h.lists
       /\ objs' = h.objs
       /\ afuncs' = h.afuncs
       /\ last' = [kind |-> kind, self |-> a, other |-> b,
                   result |-> Len(h.objs), lists |-> lists]
  /\ UNCHANGED <<gvars, rvars>>

\* two events that are not composites and a third that is another one or
\* a composite constructed without children
InitOp ==
  /\ GraphInit
  /\ RtIdle
  /\ \/ /\ lists = <<>>
        /\ objs = <<EventObj("Run", 0), EventObj("Wait", 0), EventObj("WaitUntil", 0)>>
     \/ \E kind \in OperatorKinds :
          LET h == IComposit__init__([lists |-> <<>>, afuncs |-> <<>>,
                      objs |-> <<EventObj("Run", 0), EventObj("Wait", 0)>>], kind, <<>>)
          IN lists = h.lists /\ objs = h.objs
  /\ afuncs = <<>>
  /\ last = <<>>

NextOp == \E kind \in OperatorKinds : \E a, b \in DOMAIN objs : Combine(kind, a, b)

SpecOp == InitOp /\ [][NextOp]_vars

\* the children x contributes to a composite of class kind: its own
\* children if it is of that class, itself otherwise
Operand(h, kind, x) ==
  IF h.objs[x].kind = kind THEN EventSubs(h, x) ELSE <<x>>

\* the child list of a op (b op c), evaluated on the heap h
RightNested(h, kind, a, b, c) ==
  LET h1 == operator(h, kind, b, c)
      h2 == operator(h1, kind, a, Len(h1.objs))
  IN EventSubs(h2, Len(h2.objs))

\* the child list of (a op b) op c, evaluated on the heap h
LeftNested(h, kind, a, b, c) ==
  LET h1 == operator(h, kind, a, b)
      h2 == operator(h1, kind, Len(h1.objs), c)
  IN EventSubs(h2, Len(h2.objs))

\* the lists of heap h are what they were in the heap `before`
ListsKept(before, h) ==
  \A l \in DOMAIN before.lists : h.lists[l] = before.lists[l]

\* C32: for each of +, & and |, a op (b op c) and (a op b) op c build nodes
\* of the operator's class with the same child sequence, which is [a, b, c]
\* (an operand that is itself of that class standing for its children), and
\* building them, like every evaluation of an operator, leaves the child
\* list of every existing node as it was.
C32_OperatorsFlatten ==
  /\ \A kind \in OperatorKinds : \A a, b, c \in DOMAIN objs :
       LET h1 == operator(Heap, kind, b, c)
           h2 == operator(h1, kind, a, Len(h1.objs))
           g1 == operator(Heap, kind, a, b)
           g2 == operator(g1, kind, Len(g1.objs), c)
           flat == Operand(Heap, kind, a) \o Operand(Heap, kind, b)
                     \o Operand(Heap, kind, c)
       IN /\ h2.objs[Len(h2.objs)].kind = kind
          /\ g2.objs[Len(g2.objs)].kind = kind
          /\ RightNested(Heap, kind, a, b, c) = flat
          /\ LeftNested(Heap, kind, a, b, c) = flat
          /\ {objs[a].kind, objs[b].kind, objs[c].kind} \cap {kind} = {}
               => flat = <<a, b, c>>
          /\ ListsKept(Heap, h2)
          /\ ListsKept(Heap, g2)
  /\ last # <<>> => ListsKept(last, Heap)

\* an operator has been applied to two composites of its own class, one of
\* them built by the same operator from a composite and a leaf
C32_Witness ==
  /\ last # <<>>
  /\ objs[last.self].kind = last.kind
  /\ objs[last.other].kind = last.kind
  /\ Len(EventSubs(Heap, last.self)) = 2
  /\ Len(EventSubs(Heap, last.result)) = 4

----------------------------------------------------------------------------
(* The specification of the events that never end: Infinit and LoopInfinit, *)
(* alone, wrapped, and as children of the composites.                       *)

Forever ==
  {Infinit(Run), Infinit(Wait(1)), LoopInfinit(Wait(1)),
   LoopInfinit(Traverse(<<Wait(1), Run>>))}
InfSiblings == {Run, Wait(MaxTick), WaitUntil}
InfKinds == Composits \cup {"ParallelAll"}
InfLevel1 ==
  Forever
    \cup {Invert(x) : x \in Forever}
    \cup {Ev(K, 0, <<x>>) : K \in {"LoopWhile", "LoopUntil", "LoopInfinit", "Infinit"},
                            x \in Forever}
    \cup {Infinit(Invert(Run)), Infinit(Traverse(<<Run, Wait(1)>>))}
    \cup {Ev(K, 0, <<x, l>>) : K \in InfKinds, x \in Forever, l \in InfSiblings}
    \cup {Ev(K, 0, <<l, x>>) : K \in InfKinds, x \in Forever, l \in InfSiblings}
    \cup {Ev(K, 0, <<x, y>>) : K \in InfKinds, x, y \in Forever}
InfTrees ==
  InfLevel1
    \cup {Ev(K, 0, <<x, Run>>) : K \in {"Traverse", "All", "ParallelTraverse"},
                                 x \in InfLevel1 \ Forever}

\* the classes whose entity backend is modelled in this specification
RECURSIVE EntityModelledInf(_)
EntityModelledInf(e) ==
  /\ e.kind \in {"Run", "Wait", "WaitUntil", "Traverse", "All", "Any", "Invert",
                 "Infinit", "LoopWhile", "LoopUntil", "LoopInfinit"}
  /\ \A i \in DOMAIN e.subs : EntityModelledInf(e.subs[i])

InitInf ==
  /\ GraphInit
  /\ AlgIdle
  /\ tree \in InfTrees
  /\ backend \in {"server", "entity"}
  /\ backend = "entity" => EntityModelledInf(tree)
  /\ prog = IF backend = "server" THEN export_server(tree) ELSE export_entity(tree)
  /\ flags = {}
  /\ tags = {}
  /\ data = {}
  /\ scores = {}
  /\ result = -1
  /\ sched = <<>>
  /\ cond = FALSE
  /\ log = <<>>

SpecInf == InitInf /\ [][NextRt]_vars

\* C33: the exit function of a node whose isInfinite is true is never run:
\* the log holds no exit of such a node, and the function an Infinit returned
\* as its exit has not run; and the sub of an Infinit is compiled with
\* resultless = true.
C33_InfiniteNeverExits ==
  (prog # <<>> /\ prog.err = "none") =>
    /\ \A j \in DOMAIN log :
         /\ log[j].k = "exit" => ~prog.nodes[log[j].id].inf
         /\ log[j].k # "infinit"
    /\ \A i \in DOMAIN prog.nodes : prog.nodes[i].infinit => prog.nodes[i].resultless

\* the sub of an Infinit has exited, after a game tick, under a composite
\* that is infinite and still active
C33_Witness ==
  /\ prog # <<>>
  /\ prog.err = "none"
  /\ \E i, j \in DOMAIN log :
       /\ i < j
       /\ log[i].k \in {"tick", "etick"}
       /\ log[j].k = "exit"
       /\ prog.nodes[log[j].id].infinit
       /\ prog.nodes[log[j].id].parent # 0
       /\ prog.nodes[prog.nodes[log[j].id].parent].inf
       /\ prog.nodes[log[j].id].parent \in flags \cup tags

----------------------------------------------------------------------------
(* The export specification: the export of an event tree as an operation,   *)
(* over trees that hold a composite without children and trees that do not. *)

EmptyComposits == {Ev(K, 0, <<>>) : K \in ICompositKinds}
EmptyParents == {"Traverse", "All", "Any", "ParallelTraverse", "ParallelFirst", "ParallelAll"}
EmptyLevel1 ==
  EmptyComposits
    \cup {Ev(K, 0, <<x>>) : K \in {"Invert", "Infinit", "LoopWhile", "LoopUntil", "LoopInfinit"},
                            x \in EmptyComposits}
    \cup {Ev(K, 0, <<x, l>>) : K \in EmptyParents, x \in EmptyComposits, l \in {Run, Wait(1)}}
    \cup {Ev(K, 0, <<l, x>>) : K \in EmptyParents, x \in EmptyComposits, l \in {Run, Wait(1)}}
EmptyTrees ==
  EmptyLevel1 \cup {Traverse(<<Wait(1), Invert(x)>>) : x \in EmptyLevel1}
FullTrees ==
  {Run, Wait(MaxTick), WaitUntil, Invert(Run), Traverse(<<Wait(1), Run>>)}
    \cup {Ev(K, 0, <<Run, Wait(1)>>) : K \in EmptyParents}

\* the classes whose entity backend is modelled in this specification
RECURSIVE EntityModelledEmpty(_)
EntityModelledEmpty(e) ==
  /\ \/ e.kind \in {"Run", "Wait", "WaitUntil", "Traverse", "All", "Any", "Invert",
                    "Infinit", "LoopWhile", "LoopUntil", "LoopInfinit"}
     \/ e \in EmptyComposits
  /\ \A i \in DOMAIN e.subs : EntityModelledEmpty(e.subs[i])

\* an event tree has been built and is not exported yet
InitExport ==
  /\ GraphInit
  /\ AlgIdle
  /\ tree \in EmptyTrees \cup FullTrees
  /\ backend \in {"server", "entity"}
  /\ backend = "entity" => EntityModelledEmpty(tree)
  /\ prog = <<>>
  /\ flags = {}
  /\ tags = {}
  /\ data = {}
  /\ scores = {}
  /\ result = -1
  /\ sched = <<>>
  /\ cond = FALSE
  /\ log = <<>>

\* tree.export_server(path) / the export for the entity backend
ExportTree ==
  /\ prog = <<>>
  /\ prog' = IF backend = "server" THEN export_server(tree) ELSE export_entity(tree)
  /\ UNCHANGED <<gvars, avars, tree, backend, flags, tags, data, scores, result,
                 sched, cond, log>>

NextExport == ExportTree

SpecExport == InitExport /\ [][NextExport]_vars

RECURSIVE HasEmpty(_)
HasEmpty(e) == e \in EmptyComposits \/ \E i \in DOMAIN e.subs : HasEmpty(e.subs[i])

\* the compilation state in which the next event of the exported program
\* would be exported
Resume == [NewCompile EXCEPT !.funcs = prog.funcs, !.nodes = prog.nodes]

\* C34: compiling a composite (Traverse, All, Any, ParallelTraverse,
\* ParallelFirst, ParallelAny, ParallelAll) without children fails with
\* IndexError at once: no id has been assigned to it and no function has
\* been created or appended to when the error is raised, and so the export
\* of a tree that reaches such a composite fails.
C34_EmptyCompositeRaises ==
  prog # <<>> =>
    /\ HasEmpty(tree) => prog.err = "IndexError"
    /\ \A i \in DOMAIN prog.nodes :
         prog.nodes[i].kind \in ICompositKinds => prog.nodes[i].arity > 0
    /\ prog.err = "none" =>
         \A x \in EmptyComposits : \A func \in DOMAIN prog.funcs :
           \A resultless \in BOOLEAN : \A parent \in {0} \cup DOMAIN prog.nodes :
             LET r == IF backend = "server"
                      THEN _export_server(x, func, prog.abort, prog.init,
                                          resultless, parent, Resume)
                      ELSE _export_entity(x, func, prog.abort, prog.tick, prog.init,
                                          resultless, parent, Resume)
             IN /\ r.err = "IndexError"
                /\ r.funcs = prog.funcs
                /\ r.nodes = prog.nodes

\* the export of a Traverse has failed at its second child, a composite
\* without children, after the Traverse and its first child were given ids
C34_Witness ==
  /\ prog # <<>>
  /\ prog.err = "IndexError"
  /\ tree.kind = "Traverse"
  /\ Len(tree.subs) = 2
  /\ tree.subs[2] \in EmptyComposits
  /\ Len(prog.nodes) = 2

----------------------------------------------------------------------------
(* Condition segments: SubCommandSegment.Condition.* and the If.../Unless... *)
(* constructors of Execute.  A segment is [kind, args, condition]; the      *)
(* program keeps the segments it has built in objs.                         *)

\* number of condition segments the program builds
MaxConds == 2

\* Nbt, Nbt.Matches, Entity, Block, Blocks, Score and Score.Matches
ConditionKinds == {"nbt", "nbt-match", "entity", "block", "blocks", "score", "score-match"}

\* the arguments a constructor is called with
ConditionArgs == {"a", "b"}

\* IConditionSubCommandSegment.__init__ by way of the __init__ of the class
ConditionSegment(kind, args, condition) ==
  [kind |-> kind, args |-> args, condition |-> condition]

\* the classmethod If of each class: cls(..., True)
Condition_If(kind, args) == ConditionSegment(kind, args, TRUE)

\* the classmethod Unless of each class: cls(..., False) in Nbt and
\* Nbt.Matches, cls(..., True) in the other five
Condition_Unless(kind, args) ==
  ConditionSegment(kind, args, kind \notin {"nbt", "nbt-match"})

\* IConditionSubCommandSegment.invert: a copy with the condition negated
invert(seg) == [seg EXCEPT !.condition = ~@]

\* IConditionSubCommandSegment.prefix
prefix(seg) == IF seg.condition THEN "if" ELSE "unless"

\* export_subcommand of each class: the prefix, then what is tested
export_subcommand(seg) ==
  <<prefix(seg),
    CASE seg.kind \in {"nbt", "nbt-match"} -> "data"
      [] seg.kind \in {"score", "score-match"} -> "score"
      [] OTHER -> seg.kind,
    seg.args>>

\* Execute.IfNbt, IfNbtMatch, IfEntity, IfBlock, IfBlocks, IfScore,
\* IfScoreMatch
Execute_If(kind, args) ==
  /\ Len(objs) < MaxConds
  /\ objs' = Append(objs, Condition_If(kind, args))
  /\ last' = [op |-> "If", kind |-> kind, args |-> args]
  /\ UNCHANGED <<gvars, rvars, lists, afuncs>>

\* Execute.UnlessNbt, UnlessNbtMatch, UnlessEntity, UnlessBlock,
\* UnlessBlocks, UnlessScore, UnlessScoreMatch
Execute_Unless(kind, args) ==
  /\ Len(objs) < MaxConds
  /\ objs' = Append(objs, Condition_Unless(kind, args))
  /\ last' = [op |-> "Unless", kind |-> kind, args |-> args]
  /\ UNCHANGED <<gvars, rvars, lists, afuncs>>

\* seg.invert() on a segment the program holds
Invert_segment(i) ==
  /\ Len(objs) < MaxConds
  /\ objs' = Append(objs, invert(objs[i]))
  /\ last' = [op |-> "invert", kind |-> objs[i].kind, args |-> objs[i].args]
  /\ UNCHANGED <<gvars, rvars, lists, afuncs>>

InitCond == GraphInit /\ RtIdle /\ AlgIdle

NextCond ==
  \/ \E kind \in ConditionKinds : \E args \in ConditionArgs : Execute_If(kind, args)
  \/ \E kind \in ConditionKinds : \E args \in ConditionArgs : Execute_Unless(kind, args)
  \/ \E i \in DOMAIN objs : Invert_segment(i)

SpecCond == InitCond /\ [][NextCond]_vars

\* C35: for every condition kind the segment an Unless constructor has just
\* built has the polarity opposite to the one the If constructor gives for
\* the same arguments, tests the same thing, and is rendered with `unless`.
C35_UnlessOpposite ==
  (last # <<>> /\ last.op = "Unless") =>
    LET seg == objs[Len(objs)]
        pos == Condition_If(last.kind, last.args)
    IN /\ seg.condition = ~pos.condition
       /\ seg = invert(pos)
       /\ export_subcommand(seg)[1] = "unless"
       /\ Tail(export_subcommand(seg)) = Tail(export_subcommand(pos))

----------------------------------------------------------------------------
(* The counter objectives of the entity backend: ObjectiveIterator.main     *)
(* hands an objective to each Wait of more than one tick and to each finite *)
(* ParallelTraverse; Traverse, All and Any rewind it between their children. *)

CounterKids == {Run} \cup {Wait(n) : n \in 1..MaxTick}
CounterLevel1 ==
  {Ev(K, 0, <<x, y>>) : K \in Composits, x \in CounterKids, y \in CounterKids}
CounterTrees ==
  CounterLevel1
    \cup {Ev(K, 0, <<x, Wait(MaxTick)>>) : K \in Composits, x \in CounterLevel1}
    \cup {Ev(K, 0, <<Wait(MaxTick), x>>) : K \in Composits, x \in CounterLevel1}

InitCounter ==
  /\ GraphInit
  /\ AlgIdle
  /\ tree \in CounterTrees
  /\ backend = "entity"
  /\ prog = export_entity(tree)
  /\ flags = {}
  /\ tags = {}
  /\ data = {}
  /\ scores = {}
  /\ result = -1
  /\ sched = <<>>
  /\ cond = FALSE
  /\ log = <<>>

\* the entity starts the event, aborts it, or lives one game tick
NextCounter == Start \/ Abort \/ EntityTick

SpecCounter == InitCounter /\ [][NextCounter]_vars

\* the events that hold a counter objective
CounterHolders == {i \in Nodes : prog.nodes[i].counter # -1}

\* two events in different children of a ParallelTraverse or ParallelFirst
\* (their nearest common ancestor, the one exported last, is one), or one
\* inside the other: the tree lets them be active together
Concurrent(a, b) ==
  \/ a \in Ancestors(b)
  \/ b \in Ancestors(a)
  \/ \E p \in Ancestors(a) \cap Ancestors(b) :
       /\ prog.nodes[p].kind \in {"ParallelTraverse", "ParallelFirst"}
       /\ \A q \in Ancestors(a) \cap Ancestors(b) : q <= p

\* the allocation alone: events the tree runs side by side hold different
\* objectives
AllocationDisjoint ==
  \A a \in CounterHolders : \A b \in CounterHolders \ {a} :
    Concurrent(a, b) => prog.nodes[a].counter # prog.nodes[b].counter

\* C36: on the entity backend two events that hold the same counter objective
\* never carry their activation tags at the same time
C36_CounterExclusive ==
  \A a \in CounterHolders : \A b \in CounterHolders \ {a} :
    prog.nodes[a].counter = prog.nodes[b].counter => ~(a \in tags /\ b \in tags)

----------------------------------------------------------------------------
(* The cycle-breaking pass on its own: what it changes and how far it walks *)

\* C37: the recursivecheck pass changes a function's callstate only from
\* FLATTEN or SINGLE to EXPORT, and only for a function on a cycle of the
\* call graph
C37_PromotesOnlyInlinedOnCycle ==
  [][pc = "defined" =>
       \A f \in Funcs :
         callstate'[f] # callstate[f] =>
           /\ callstate[f] \in {"FLATTEN", "SINGLE"}
           /\ callstate'[f] = "EXPORT"
           /\ OnCycleWithin(Funcs, f)]_vars

\* the pass has promoted a SINGLE function and has left a NEEDLESS function
\* and a function that define_state made EXPORT as they were
C37_Witness ==
  /\ pc = "checked"
  /\ \E f \in Funcs : define_state(f) = "SINGLE" /\ callstate[f] = "EXPORT"
  /\ \E g \in Funcs : define_state(g) = "NEEDLESS" /\ callstate[g] = "NEEDLESS"

----------------------------------------------------------------------------
(* The operands of SubCommand.__add__ after the addition *)

\* C39: when P + x has been evaluated the prefix list of P and the prefix
\* list of x hold what they held before
C39_OperandsKept ==
  last # <<>> =>
    /\ SubsOf(Heap, last.self) = last.P
    /\ SubsOf(Heap, last.other) = last.Q

\* the half of C39 about the left operand, and the right operand when it is
\* a prefix chain or a function call
OperandsKeptButCommand ==
  last # <<>> =>
    /\ SubsOf(Heap, last.self) = last.P
    /\ last.x.kind # "Command" => SubsOf(Heap, last.other) = last.Q

============================================================================
